---- MODULE Spec2Model ----
(***************************************************************************)
(* Verification model of BoMI-py's sensor acquisition path.                *)
(*                                                                         *)
(*   SpecBuf : bomi/datastructure.py, one MultichannelBuffer or            *)
(*             AveragedMultichannelBuffer with its CSV log file.           *)
(*   Spec    : bomi/device_managers/yost_manager.py (registry, start and   *)
(*             stop of the streaming worker) with the hub frame decoding   *)
(*             of bomi/device_managers/yost_serial_comm.py, driven through *)
(*             the manager's methods while a wired sensor comes and goes.  *)
(*   SpecScope : the same manager driven by YostWidget and one ScopeWidget *)
(*             (bomi/widgets/scope_widget.py) on a bench of one hub.       *)
(*   SpecFault : the manager on a bench of one hub whose serial link       *)
(*             delivers damaged, short and unexpected frames and whose hub *)
(*             can be pulled while it streams.                             *)
(*   SpecEmg : trigno_sdk/client.py, one TrignoClient and the byte stream  *)
(*             of its EMG data channel.                                    *)
(*   SpecWr  : write_dongle_port and write_port of yost_serial_comm.py,    *)
(*             the request frames byte by byte.                            *)
(*   SpecStop : the manager and the TrignoClient side by side, started and *)
(*             stopped by their callers.                                   *)
(*                                                                         *)
(* A float in a buffer or a log row is the fraction [num, den] in lowest   *)
(* terms, so that a mean is computed, not assumed.                         *)
(***************************************************************************)
EXTENDS Integers, Sequences, FiniteSets, TLC

VARIABLES
    \* ---- bomi/datastructure.py : one buffer object -------------------
    bufsize,        \* MultichannelBuffer.bufsize
    averaged,       \* TRUE: the object is an AveragedMultichannelBuffer
    timestamp,      \* MultichannelBuffer.timestamp   (ring of times)
    raw_data,       \* MultichannelBuffer._raw_data   (ring of reading tuples)
    data,           \* MultichannelBuffer.data        (alias or averaged ring)
    sensor_fp,      \* rows written to sensor_fp, still in the process buffer
    disk,           \* rows of the log file that reached the file
    fp_open,        \* sensor_fp is open (the object is alive)
    added,          \* history: the packets passed to add_packet so far
    \* ---- the hardware ------------------------------------------------
    attached,       \* serial numbers of the COM-port devices plugged in
    hub_streaming,  \* per dongle: slots told to start and not told to stop
    wired_streaming,\* wired sensors told to start and not told to stop
    \* ---- YostDeviceManager -------------------------------------------
    dongles,        \* self.dongles
    all_sensors,    \* self.all_sensors
    wired_sensors,  \* self.wired_sensors
    wireless_sensors, \* self.wireless_sensors
    _streaming,     \* self._streaming
    _thread,        \* self._thread (0 is None, else a thread id)
    _names,         \* self._names : serial_number_hex -> nickname
    open_devices,   \* threespace_api device objects whose handle is open
    serial_open,    \* dongles whose port is open as a raw serial.Serial
    port_io,        \* per dongle: what was written to / read from the raw port
    threads,        \* the handle_stream threads: position and closure
    gui_pc,         \* the GUI thread: "idle", or "joining" inside stop_stream
    \* ---- ScopeWidget -------------------------------------------------
    queue,          \* self.queue
    dev_names,      \* self.dev_names
    dev_sn,         \* self.dev_sn
    buffers,        \* self.buffers : name -> rows given to add_packet
    timer_active,   \* self.timer is running
    selected_sensor_name, \* self.selected_sensor_name
    \* ---- bookkeeping -------------------------------------------------
    clock,          \* default_timer(), one tick per loop iteration
    last,           \* the operation that made the last step
    wire,           \* what the ports delivered to the last pass of the loop
    renamed,        \* history: the serials set_device_name was called with
    \* ---- trigno_sdk/client.py : one TrignoClient ------------------------
    connected,      \* self.connected
    streaming,      \* self.streaming
    worker_thread,  \* self.worker_thread: "none" is None, else the thread's state
    command_sock,   \* self.command_sock: "new", "connected" or "closed"
    emg_data_sock,  \* self.emg_data_sock: "new", "connected" or "closed"
    emg_pc,         \* the caller: "idle", or inside the join of stop_stream
    emg_joined,     \* the last stop_stream called worker_thread.join()
    emg_sent,       \* the commands the last method call sent to the base station
    base_streaming, \* the base station got START and no STOP since
    emg_stream,     \* the frames the base station wrote to the data channel
    emg_read,       \* the bytes of the data channel read so far
    emg_queue,      \* the queue given to handle_stream
    \* ---- yost_serial_comm.py : one request written to a port -------------
    wr_req,         \* the arguments: logical_id, the Cmd's opcode, its args
    wr_command,     \* the bytes given to port.write
    \* ---- trigno_sdk/client.py : the command channel ------------------------
    cmd_cmds,       \* send_cmds: the commands of the call
    cmd_pc,         \* send_cmds: where the call is
    cmd_sent,       \* the bytes send_cmds wrote to command_sock
    cmd_answered,   \* how many of the commands the base station has answered
    cmd_stream,     \* the reply bytes that have arrived and are not read yet
    cmd_replies,    \* the list send_cmds builds: one recv() per command
    \* ---- yost_serial_comm.py : one WiredSensors object -----------------
    ws_ports,       \* WiredSensors.ports: the opened ports, by index in names
    ws_queue,       \* the queue handed to WiredSensors.recv
    ws_reads,       \* what port.read(out_sz) returned in the last recv
    ws_raised,      \* TRUE: the last recv left with an exception
    \* ---- yost_manager.py : the rate accounting of handle_stream --------
    fps_packet_counter, \* handle_stream: fps_packet_counter
    fps_first,      \* TRUE until the first pass of the loop is over
    fps_pushed,     \* samples pushed since the previous report
    fps_report,     \* what the last pass printed: <<>> or <<samples counted>>
    fps_pc,         \* "loop", or "ended" once an exception left the loop
    \* ---- bomi/datastructure.py : one DelsysBuffer ----------------------
    ds_bufsize,     \* DelsysBuffer.bufsize
    ds_data,        \* DelsysBuffer.data       (ring of frames)
    ds_timestamp,   \* DelsysBuffer.timestamp  (ring of times)
    ds_packets,     \* the argument of the last add_packets call
    ds_calls,       \* calls of add_packet and add_packets so far
    ds_error,       \* TRUE: the last call left with a ValueError
    \* ---- widgets/scope_widget.py : update(), statement by statement ----
    upd_left,       \* update: iterations of `for _ in range(qsize)` to go
    upd_snapshot,   \* the queue as it was when update read qsize
    upd_taken,      \* the packets q.get() has returned in this update
    \* ---- widgets/scope_widget.py : the task events of update() ---------
    last_state,     \* ScopeWidget.last_state
    target_range,   \* ScopeWidget.target_range  <<tmin, tmax>>
    base_range,     \* ScopeWidget.base_range    <<bmin, bmax>>
    task_events,    \* the events emitted on sigTaskEventIn, in order
    task_meas,      \* the most recent measurement of each device, last update
    task_emitted    \* the events each device emitted in the last update

bufVars == <<bufsize, averaged, timestamp, raw_data, data, sensor_fp, disk,
             fp_open, added>>

hwVars == <<attached, hub_streaming, wired_streaming>>

dmVars == <<dongles, all_sensors, wired_sensors, wireless_sensors, _streaming,
            _thread, _names, open_devices, serial_open, port_io, threads, gui_pc>>

swVars == <<queue, dev_names, dev_sn, buffers, timer_active, selected_sensor_name>>

yostVars == <<hwVars, dmVars, swVars, clock, last>>

\* the variables the acquisition path above does not touch
emgVars == <<connected, streaming, worker_thread, command_sock, emg_data_sock,
             emg_pc, emg_joined, emg_sent, base_streaming, emg_stream, emg_read,
             emg_queue>>

wrVars == <<wr_req, wr_command>>

cmdVars == <<cmd_cmds, cmd_pc, cmd_sent, cmd_answered, cmd_stream, cmd_replies>>

wsVars == <<ws_ports, ws_queue, ws_reads, ws_raised>>

\* the objects that have a specification of their own further down
fpsVars == <<fps_packet_counter, fps_first, fps_pushed, fps_report, fps_pc>>

dsVars == <<ds_bufsize, ds_data, ds_timestamp, ds_packets, ds_calls, ds_error>>

updVars == <<upd_left, upd_snapshot, upd_taken>>

taskVars == <<last_state, target_range, base_range, task_events, task_meas,
             task_emitted>>

auxVars == <<wsVars, fpsVars, dsVars, updVars, taskVars>>

extVars == <<wire, renamed, emgVars, wrVars, cmdVars, auxVars>>

\* everything but the TrignoClient and the name of the last operation
nonEmgVars == <<bufVars, hwVars, dmVars, swVars, clock, wire, renamed, wrVars,
                cmdVars,
                auxVars>>

vars == <<bufVars, yostVars, extVars>>

-----------------------------------------------------------------------------
(* Bounds *)
MaxBufsize == 2
MaxAdds    == 3
MaxThreads == 2
MaxClock   == 1
MaxFrames  == 2
MaxArgs    == 2

(* Program constants *)
DEFAULT_MOVING_AVERAGE_POINTS == 1024

-----------------------------------------------------------------------------
(* Helpers *)
Min(a, b) == IF a <= b THEN a ELSE b

RECURSIVE SumSeq(_)
SumSeq(s) ==
    IF s = <<>> THEN 0
    ELSE IF Len(s) = 1 THEN s[1]
    ELSE LET h == Len(s) \div 2
         IN  SumSeq(SubSeq(s, 1, h)) + SumSeq(SubSeq(s, h + 1, Len(s)))

LastN(s, n) == SubSeq(s, Len(s) - Min(n, Len(s)) + 1, Len(s))

Zeros(n, z) == [i \in 1..n |-> z]

RECURSIVE GCD(_, _)
GCD(a, b) == IF b = 0 THEN a ELSE GCD(b, a % b)

\* the float num/den
Frac(num, den) == [num |-> num \div GCD(num, den), den |-> den \div GCD(num, den)]

\* the float of a whole number
Float(v) == [num |-> v, den |-> 1]

-----------------------------------------------------------------------------
(* bomi/datastructure.py *)

\* the channel labels the buffer is constructed with, in order
channel_labels == <<"a", "b">>

\* the times and the channel values of the packets given to the buffer
Times  == {1, 2}
Values == {1, 2}

\* a Packet's channel_readings is a dict: a function on a set of keys
ReadingDicts == [{"a", "b"} -> Values]

Packets == [time : Times, channel_readings : ReadingDicts]

\* readings = tuple(packet.channel_readings[key] for key in self.channel_labels)
Readings(packet) ==
    [i \in 1..Len(channel_labels) |-> Float(packet.channel_readings[channel_labels[i]])]

\* header = ",".join(("t", *self.channel_labels)) + "\n"
Header == <<"t">> \o channel_labels

\* ",".join(str(v) for v in (packet.time, *readings)) + "\n"
\* str() of a float is injective, a row is modelled by its sequence of fields
Row(time, readings) == <<time>> \o readings

ShiftLeft_NoShift(ring, x) == [ring EXCEPT ![Len(ring)] = x]

ShiftLeft_Front(ring, x) == <<x>> \o SubSeq(ring, 1, Len(ring) - 1)

\* ring[:-1] = ring[1:] ; ring[-1] = x
ShiftLeft(ring, x) == Tail(ring) \o <<x>>

moving_average_points_WholeRing == bufsize

\* moving_average_points = min(self.bufsize, self.DEFAULT_MOVING_AVERAGE_POINTS)
moving_average_points == Min(bufsize, DEFAULT_MOVING_AVERAGE_POINTS)

\* moving_average_slice[col_name].mean() for every column
Averages(raw) ==
    LET slice == LastN(raw, moving_average_points)
    IN  [c \in 1..Len(channel_labels) |->
            Frac(SumSeq([i \in 1..Len(slice) |-> slice[i][c].num]), Len(slice))]

LoggedReadings_Averaged(packet, raw) == Averages(ShiftLeft(raw, Readings(packet)))

\* the values add_packet writes to the file after the time
LoggedReadings(packet, raw) == Readings(packet)

\* MultichannelBuffer.__init__ / AveragedMultichannelBuffer.__init__
BufInit ==
    /\ bufsize \in 1..MaxBufsize
    /\ averaged \in BOOLEAN
    /\ timestamp = Zeros(bufsize, 0)
    /\ raw_data = Zeros(bufsize, Zeros(Len(channel_labels), Float(0)))
    /\ data = raw_data
    /\ sensor_fp = <<Header>>
    /\ disk = <<>>
    /\ fp_open = TRUE
    /\ added = <<>>

\* MultichannelBuffer.add_packet, then AveragedMultichannelBuffer.add_packet
add_packet(packet) ==
    /\ fp_open
    /\ Len(added) < MaxAdds
    /\ sensor_fp' = Append(sensor_fp, Row(packet.time, LoggedReadings(packet, raw_data)))
    /\ raw_data' = ShiftLeft(raw_data, Readings(packet))
    /\ timestamp' = ShiftLeft(timestamp, packet.time)
    /\ data' = IF averaged
               THEN ShiftLeft(data, Averages(raw_data'))
               ELSE raw_data'
    /\ added' = Append(added, packet)
    /\ UNCHANGED <<bufsize, averaged, disk, fp_open, yostVars, extVars>>

\* the io layer empties its write buffer into the file when it decides to
io_flush ==
    /\ fp_open
    /\ sensor_fp # <<>>
    /\ disk' = disk \o sensor_fp
    /\ sensor_fp' = <<>>
    /\ UNCHANGED <<bufsize, averaged, timestamp, raw_data, data, fp_open, added, yostVars, extVars>>

\* MultichannelBuffer.__del__ : self.sensor_fp.close()
buffer_del ==
    /\ fp_open
    /\ disk' = disk \o sensor_fp
    /\ sensor_fp' = <<>>
    /\ fp_open' = FALSE
    /\ UNCHANGED <<bufsize, averaged, timestamp, raw_data, data, added, yostVars, extVars>>

BufNext ==
    \/ \E packet \in Packets : add_packet(packet)
    \/ io_flush
    \/ buffer_del

-----------------------------------------------------------------------------
(* The hardware on the COM ports *)

\* serial numbers (dev.serial_number) of the devices of the test bench
D1 == 31
D2 == 32
W1 == 21
S1 == 11
S2 == 12
S3 == 13
S4 == 14

DongleIds == {D1, D2}
WiredIds  == {W1}

\* ts_api.getComPorts() lists the plugged devices in this order
ComPorts == <<D1, D2, W1>>

\* logical slots of a dongle (LogicalAddress.logical_slot is 0..15)
Slots == 0..15

\* dongle.wireless_table : slot -> serial number, 0 when the slot is unbound
wireless_table ==
    [d \in DongleIds |->
        [s \in Slots |->
            IF d = D1 /\ s = 0 THEN S1
            ELSE IF d = D1 /\ s = 1 THEN S2
            ELSE IF d = D2 /\ s = 1 THEN S3
            ELSE IF d = D2 /\ s = 5 THEN S4
            ELSE 0]]

\* HEX = "{0:08X}" : dev.serial_number_hex
HEX(n) ==
    CASE n = 11 -> "0000000B"
      [] n = 12 -> "0000000C"
      [] n = 13 -> "0000000D"
      [] n = 14 -> "0000000E"
      [] n = 21 -> "00000015"
      [] n = 31 -> "0000001F"
      [] n = 32 -> "00000020"

\* the devices that are plugged and unplugged while the program runs
Pluggable == {W1}

\* the devices on the bench of the ScopeWidget sessions: one hub, two sensors
ScopeBench == {D1}

\* nicknames the operator types into the table
NickNames == {"arm"}

\* devices whose nickname the operator edits
RenameSerials == {S1, S2}

-----------------------------------------------------------------------------
(* bomi/device_managers/yost_manager.py : the registry *)

SeqToSet(s) == {s[i] : i \in 1..Len(s)}

\* number of logical indexes discover_all_devices checks on a dongle
CheckedSlots == 4

\* for i in range(4): sens = device[i]; if sens is not None: append
RECURSIVE SlotSensors(_, _, _)
SlotSensors(d, i, n) ==
    IF i >= n THEN <<>>
    ELSE (IF wireless_table[d][i] # 0 THEN <<wireless_table[d][i]>> ELSE <<>>)
         \o SlotSensors(d, i + 1, n)

NoDevices == [dongles |-> <<>>, all_sensors |-> <<>>, wired_sensors |-> <<>>,
              wireless_sensors |-> <<>>]

\* a port is opened by the device constructor; a port that is unplugged or
\* held open by a raw serial.Serial raises SerialException and is skipped
RECURSIVE discover_from(_, _, _)
discover_from(ports, busy, acc) ==
    IF ports = <<>> THEN acc
    ELSE LET p == Head(ports)
             found == p \in attached /\ p \notin busy
             wl == SlotSensors(p, 0, CheckedSlots)
             acc2 == IF ~found THEN acc
                     ELSE IF p \notin DongleIds
                     THEN [acc EXCEPT !.wired_sensors = Append(@, p),
                                      !.all_sensors = Append(@, p)]
                     ELSE [acc EXCEPT !.dongles = Append(@, p),
                                      !.wireless_sensors = @ \o wl,
                                      !.all_sensors = @ \o wl]
         IN  discover_from(Tail(ports), busy, acc2)

discover_all_devices_KeepOld(busy) ==
    LET r == discover_from(ComPorts, busy, NoDevices)
    IN  IF r.all_sensors = <<>>
        THEN [dongles |-> dongles, all_sensors |-> all_sensors,
              wired_sensors |-> wired_sensors, wireless_sensors |-> wireless_sensors]
        ELSE r

discover_all_devices_IgnoreBusy(busy) == discover_from(ComPorts, {}, NoDevices)

\* discover_all_devices(), busy: the ports held open as raw serial ports
discover_all_devices(busy) == discover_from(ComPorts, busy, NoDevices)

has_sensors == Len(all_sensors) > 0

RegistryDevices == SeqToSet(all_sensors) \cup SeqToSet(dongles)

close_all_LeaveWired(open) == open \ (SeqToSet(wireless_sensors) \cup SeqToSet(dongles))

\* the handles left open by close_all_devices
close_all_handles(open) == open \ RegistryDevices

\* close_all_devices()
close_all_devices ==
    /\ open_devices' = close_all_handles(open_devices)
    /\ dongles' = <<>>
    /\ wired_sensors' = <<>>
    /\ wireless_sensors' = <<>>
    /\ all_sensors' = <<>>

default_names_Reset(names, found) == [h \in {HEX(d) : d \in found} |-> h]

\* for dev in (*dongles, *all_sensors):
\*     if not dev.serial_number_hex in self._names: self._names[..] = serial_number_hex
default_names(names, found) ==
    [h \in DOMAIN names \cup {HEX(d) : d \in found} |->
        IF h \in DOMAIN names THEN names[h] ELSE h]

\* discover_devices()
discover_devices(busy) ==
    LET r == discover_all_devices(busy)
        found == SeqToSet(r.dongles) \cup SeqToSet(r.all_sensors)
    IN  /\ dongles' = r.dongles
        /\ all_sensors' = r.all_sensors
        /\ wired_sensors' = r.wired_sensors
        /\ wireless_sensors' = r.wireless_sensors
        /\ open_devices' = close_all_handles(open_devices) \cup found
        /\ _names' = default_names(_names, found)

\* get_device_name(serial_number_hex)
get_device_name(names, h) == IF h \in DOMAIN names THEN names[h] ELSE ""

\* get_all_sensor_serial()
get_all_sensor_serial == [i \in 1..Len(all_sensors) |-> HEX(all_sensors[i])]

\* get_all_sensor_names()
get_all_sensor_names == [i \in 1..Len(all_sensors) |-> _names[HEX(all_sensors[i])]]

-----------------------------------------------------------------------------
(* bomi/device_managers/yost_serial_comm.py : the hub protocol *)

\* sum(slot.out_len for slot in streaming_slots): 12 bytes of Euler angles + 1
out_sz == 13

Ack == <<"r">>

\* write_dongle_port(port, cmd, logical_id) as seen on the port
Wr(cmd, logical_id) == <<"w", cmd, logical_id>>

RECURSIVE ConfigureTrace_Pipelined(_)
ConfigureTrace_Pipelined(ids) ==
    IF ids = <<>> THEN <<>>
    ELSE <<Wr("setStreamingSlots", Head(ids)), Wr("setStreamingTiming", Head(ids)),
           Ack, Ack>> \o ConfigureTrace_Pipelined(Tail(ids))

\* the first loop of start_dongle_streaming: per logical id, two requests,
\* each followed by the read of its acknowledgement
RECURSIVE ConfigureTrace(_)
ConfigureTrace(ids) ==
    IF ids = <<>> THEN <<>>
    ELSE <<Wr("setStreamingSlots", Head(ids)), Ack,
           Wr("setStreamingTiming", Head(ids)), Ack>> \o ConfigureTrace(Tail(ids))

\* start_dongle_streaming(port, logical_ids, interval_us)
start_dongle_streaming(ids) ==
    ConfigureTrace(ids)
    \o [i \in 1..Len(ids) |-> Wr("startStreaming", ids[i])]
    \o [i \in 1..Len(ids) |-> Ack]

\* stop_dongle_streaming(port, logical_ids)
stop_dongle_streaming(ids) ==
    [i \in 1..Len(ids) |-> Wr("stopStreaming", ids[i])]
    \o [i \in 1..Len(ids) |-> Ack]

\* the slots a trace sent command cmd to
SlotsSent(trace, cmd) ==
    {trace[i][3] : i \in {j \in 1..Len(trace) : trace[j][1] = "w" /\ trace[j][2] = cmd}}

NoneRaw == [none |-> TRUE, n |-> 0, v |-> 0]

\* the reading every sensor of the bench reports
SentValue == 1

\* the frame the hub sends for the sensor bound to slot s, fail byte f; src is
\* the sensor that sent it
HubFrame(d, f, s) ==
    [hdr |-> <<f, s>>, len |-> <<out_sz>>, n |-> out_sz, v |-> SentValue,
     src |-> wireless_table[d][s]]

\* port.read(2) times out
NoFrame == [hdr |-> <<>>, len |-> <<>>, n |-> 0, v |-> 0, src |-> 0]

\* what a port delivers to one read_dongle_port call within the timeouts:
\* the header bytes, the length byte and the payload bytes that arrive
WireReads(d) ==
    {NoFrame} \cup {HubFrame(d, f, s) : f \in {0, 1}, s \in hub_streaming[d]}

read_dongle_port_IgnoreFail(w) ==
    IF Len(w.hdr) # 2 THEN <<-1, 0, NoneRaw>>
    ELSE IF w.len # <<>>
         THEN <<0, w.hdr[2], [none |-> FALSE, n |-> Min(w.len[1], w.n), v |-> w.v]>>
         ELSE <<w.hdr[1], w.hdr[2], NoneRaw>>

\* read_dongle_port(port) -> (failed, logical_id, raw)
read_dongle_port(w) ==
    IF Len(w.hdr) # 2 THEN <<-1, 0, NoneRaw>>
    ELSE IF w.hdr[1] = 0 /\ w.len # <<>>
         THEN <<0, w.hdr[2], [none |-> FALSE, n |-> Min(w.len[1], w.n), v |-> w.v]>>
         ELSE <<w.hdr[1], w.hdr[2], NoneRaw>>

\* Packet(now, name, channel_readings); src is the sensor the frame came from
Packet(now, name, v, src) ==
    [time |-> now, device_name |-> name, channel_readings |-> v, src |-> src]

-----------------------------------------------------------------------------
(* bomi/device_managers/yost_manager.py : start_stream and its thread *)

ThreadIds == 1..MaxThreads

NoThread == [pc |-> "none", ports |-> <<>>, logical_ids |-> <<>>, aborted |-> FALSE]

Alive(t) == threads[t].pc \in {"loop", "reading", "finally"}

\* idx = dongle.wireless_table.index(wl_id)
TableIndex(d, id) ==
    CHOOSE s \in Slots : /\ wireless_table[d][s] = id
                         /\ \A t \in Slots : t < s => wireless_table[d][t] # id

InTable(d, id) == \E s \in Slots : wireless_table[d][s] = id

\* list(wl_mp.keys()) : the keys in insertion order
RECURSIVE KeysOf(_, _, _)
KeysOf(d, wl_ids, seen) ==
    IF wl_ids = <<>> THEN <<>>
    ELSE IF InTable(d, Head(wl_ids)) /\ TableIndex(d, Head(wl_ids)) \notin seen
         THEN <<TableIndex(d, Head(wl_ids))>>
              \o KeysOf(d, Tail(wl_ids), seen \cup {TableIndex(d, Head(wl_ids))})
         ELSE KeysOf(d, Tail(wl_ids), seen)

\* wl_mp[idx] = self.get_device_name(HEX.format(wl_id))
WlMp(d, wl_ids) ==
    [s \in SeqToSet(KeysOf(d, wl_ids, {})) |->
        get_device_name(_names, HEX(wireless_table[d][s]))]

\* while self.dongles: dongle = self.dongles.pop() ... start_dongle_streaming
\* serial.Serial(port_name) raises when the dongle is not plugged in
RECURSIVE setup_dongles(_, _)
setup_dongles(ds, acc) ==
    IF ds = <<>> \/ acc.raised THEN acc
    ELSE LET d == ds[Len(ds)]
             rest == SubSeq(ds, 1, Len(ds) - 1)
             ids == KeysOf(d, wireless_sensors, {})
             closed == [acc EXCEPT !.dongles = rest, !.open = @ \ {d}]
         IN  IF d \notin attached
             THEN [closed EXCEPT !.raised = TRUE]
             ELSE setup_dongles(rest,
                    [closed EXCEPT
                        !.ports = Append(@, [name |-> d, wl_mp |-> WlMp(d, wireless_sensors)]),
                        !.serial = @ \cup {d},
                        !.io = [@ EXCEPT ![d] = start_dongle_streaming(ids)],
                        !.hub = [@ EXCEPT ![d] = @ \cup SeqToSet(ids)],
                        !.logical_ids = ids])

\* the threads created so far
Started == {t \in ThreadIds : threads[t].pc # "none"}

\* threading.Thread(target=handle_stream, ...): the next thread
FreeThread == Cardinality(Started) + 1

SetupResult ==
    setup_dongles(dongles,
        [ports |-> <<>>, serial |-> serial_open, io |-> port_io,
         hub |-> hub_streaming, logical_ids |-> <<>>,
         dongles |-> dongles, open |-> open_devices, raised |-> FALSE])

start_stream_proceeds_Always == TRUE

\* start_stream goes on past its first check
start_stream_proceeds == has_sensors

\* YostDeviceManager.start_stream(queue)
start_stream ==
    IF ~start_stream_proceeds
    THEN UNCHANGED <<hub_streaming, wired_streaming, dongles, all_sensors,
                     wired_sensors, wireless_sensors, _streaming, _thread,
                     open_devices, serial_open, port_io, threads>>
    ELSE LET r == SetupResult
         IN  /\ dongles' = r.dongles
             /\ open_devices' = r.open
             /\ serial_open' = r.serial
             /\ port_io' = r.io
             /\ hub_streaming' = r.hub
             /\ UNCHANGED <<all_sensors, wired_sensors, wireless_sensors>>
             /\ IF r.raised
                THEN UNCHANGED <<wired_streaming, _streaming, _thread, threads>>
                ELSE /\ wired_streaming' =
                            wired_streaming \cup (SeqToSet(wired_sensors) \cap attached)
                     /\ _streaming' = TRUE
                     /\ _thread' = FreeThread
                     /\ threads' = [threads EXCEPT ![FreeThread] =
                            [pc |-> "loop", ports |-> r.ports,
                             logical_ids |-> r.logical_ids, aborted |-> FALSE]]

\* for sensor in self.wired_sensors: b = sensor.getStreamingBatch(); queue.append
RECURSIVE read_wired(_, _, _)
read_wired(sensors, now, acc) ==
    IF sensors = <<>> \/ acc.raised THEN acc
    ELSE IF Head(sensors) \notin attached
         THEN [acc EXCEPT !.raised = TRUE]
         ELSE read_wired(Tail(sensors), now,
                [acc EXCEPT !.q = Append(@,
                    Packet(now, _names[HEX(Head(sensors))], 1, Head(sensors)))])

\* for port in ports: failed, logical_id, raw = read_dongle_port(port) ...
\* name=port.wl_mp[logical_id] raises KeyError for a slot that is not mapped
RECURSIVE read_ports(_, _, _, _)
read_ports(ports, ws, now, acc) ==
    IF ports = <<>> \/ acc.raised THEN acc
    ELSE LET port == Head(ports)
             r == read_dongle_port(Head(ws))
             ok == r[1] = 0 /\ ~r[3].none /\ r[3].n > 0 /\ r[3].n = out_sz
         IN  IF port.name \notin attached
             THEN [acc EXCEPT !.raised = TRUE]
             ELSE IF ~ok
             THEN read_ports(Tail(ports), Tail(ws), now, acc)
             ELSE IF r[2] \notin DOMAIN port.wl_mp
             THEN [acc EXCEPT !.raised = TRUE]
             ELSE read_ports(Tail(ports), Tail(ws), now,
                    [acc EXCEPT !.q = Append(@,
                        Packet(now, port.wl_mp[r[2]], r[3].v, Head(ws).src))])

\* the wire inputs of one loop iteration, one per port
WireChoices(ports) ==
    {ws \in [1..Len(ports) -> UNION {WireReads(d) : d \in DongleIds}] :
        \A i \in 1..Len(ports) : ws[i] \in WireReads(ports[i].name)}

\* one pass of `while self._streaming:` in handle_stream; passes: how many
\* passes read the ports in one behaviour
loop_pass(t, passes) ==
    /\ threads[t].pc = "loop"
    /\ IF ~_streaming
       THEN /\ threads' = [threads EXCEPT ![t].pc = "finally"]
            /\ UNCHANGED <<queue, clock>>
       ELSE /\ clock < passes
            /\ clock' = clock + 1
            /\ \E ws \in WireChoices(threads[t].ports) :
                 LET w == read_wired(wired_sensors, clock, [q |-> queue, raised |-> FALSE])
                     r == read_ports(threads[t].ports, ws, clock, w)
                 IN  /\ queue' = r.q
                     /\ threads' = [threads EXCEPT ![t].pc =
                                        IF r.raised THEN "finally" ELSE "loop"]
    /\ last' = "other"
    /\ UNCHANGED <<hwVars, dongles, all_sensors, wired_sensors, wireless_sensors,
                   _streaming, _thread, _names, open_devices, serial_open, port_io,
                   gui_pc, dev_names, dev_sn, buffers, timer_active,
                   selected_sensor_name, bufVars, extVars>>

handle_stream_loop(t) == loop_pass(t, MaxClock)

\* the logical ids handle_stream's finally block passes to stop_dongle_streaming
stop_ids(t, port) == threads[t].logical_ids

\* for port in ports: stop_dongle_streaming(port, logical_ids); port.close()
\* a write to a port whose dongle was unplugged raises SerialException
RECURSIVE stop_ports(_, _, _)
stop_ports(t, ports, acc) ==
    IF ports = <<>> \/ acc.raised THEN acc
    ELSE LET port == Head(ports)
             d == port.name
             ids == stop_ids(t, port)
         IN  IF d \notin attached /\ ids # <<>>
             THEN [acc EXCEPT !.raised = TRUE]
             ELSE stop_ports(t, Tail(ports),
                    [acc EXCEPT
                        !.io = [@ EXCEPT ![d] = @ \o stop_dongle_streaming(ids)],
                        !.hub = [@ EXCEPT ![d] = @ \ SeqToSet(ids)],
                        !.serial = @ \ {d}])

\* the finally block of handle_stream: stop the wired sensors, stop and close
\* every port, time.sleep(0.2), self.discover_devices(); an exception raised by
\* a stop command ends the thread before the ports after it are closed
handle_stream_finally(t) ==
    /\ threads[t].pc = "finally"
    /\ LET r == stop_ports(t, threads[t].ports,
                    [io |-> port_io, hub |-> hub_streaming, serial |-> serial_open,
                     raised |-> FALSE])
       IN  /\ wired_streaming' = wired_streaming \ SeqToSet(wired_sensors)
           /\ port_io' = r.io
           /\ hub_streaming' = r.hub
           /\ serial_open' = r.serial
           /\ threads' = [threads EXCEPT ![t] = [NoThread EXCEPT !.pc = "done",
                                                                !.aborted = r.raised]]
           /\ IF r.raised
              THEN /\ UNCHANGED <<dongles, all_sensors, wired_sensors,
                                  wireless_sensors, open_devices, _names>>
                   /\ last' = "other"
              ELSE /\ discover_devices(r.serial)
                   /\ last' = "discover_devices"
    /\ UNCHANGED <<attached, _streaming, _thread, gui_pc, swVars, clock, bufVars, extVars>>

stop_stream_call_FlagLeftSet ==
    IF _thread # 0 /\ _streaming
    THEN /\ gui_pc' = "joining"
         /\ last' = "other"
         /\ UNCHANGED _streaming
    ELSE /\ last' = "stop_stream_noop"
         /\ UNCHANGED <<_streaming, gui_pc>>

stop_stream_call_Unguarded ==
    /\ _streaming' = FALSE
    /\ gui_pc' = "joining"
    /\ last' = (IF _thread # 0 /\ _streaming THEN "other" ELSE "stop_stream_noop")

\* YostDeviceManager.stop_stream() up to self._thread.join()
stop_stream_call ==
    IF _thread # 0 /\ _streaming
    THEN /\ _streaming' = FALSE
         /\ gui_pc' = "joining"
         /\ last' = "other"
    ELSE /\ last' = "stop_stream_noop"
         /\ UNCHANGED <<_streaming, gui_pc>>

\* self._thread.join() returns; self._thread = None
stop_stream_join ==
    /\ gui_pc = "joining"
    /\ ~Alive(_thread)
    /\ _thread' = 0
    /\ gui_pc' = "idle"
    /\ last' = "stop_stream"

\* a caller invokes YostDeviceManager.start_stream(queue)
dm_start_stream ==
    /\ gui_pc = "idle"
    /\ start_stream_proceeds /\ ~SetupResult.raised =>
            Cardinality(Started) < MaxThreads
    /\ start_stream
    /\ last' = "start_stream"
    /\ UNCHANGED <<attached, _names, gui_pc, swVars, clock, bufVars, extVars>>

\* a caller invokes YostDeviceManager.stop_stream()
dm_stop_stream ==
    /\ gui_pc = "idle"
    /\ stop_stream_call
    /\ UNCHANGED <<hwVars, dongles, all_sensors, wired_sensors, wireless_sensors,
                   _thread, _names, open_devices, serial_open, port_io, threads,
                   swVars, clock, bufVars, extVars>>

\* the join of that stop_stream() returns
dm_stop_stream_join ==
    /\ stop_stream_join
    /\ UNCHANGED <<hwVars, dongles, all_sensors, wired_sensors, wireless_sensors,
                   _streaming, _names, open_devices, serial_open, port_io, threads,
                   swVars, clock, bufVars, extVars>>

\* a caller invokes YostDeviceManager.discover_devices()
dm_discover_devices ==
    /\ gui_pc = "idle"
    /\ discover_devices(serial_open)
    /\ last' = "discover_devices"
    /\ UNCHANGED <<hwVars, _streaming, _thread, serial_open, port_io, threads,
                   gui_pc, swVars, clock, bufVars, extVars>>

\* a caller invokes YostDeviceManager.close_all_devices()
dm_close_all_devices ==
    /\ gui_pc = "idle"
    /\ close_all_devices
    /\ last' = "close_all_devices"
    /\ UNCHANGED <<hwVars, _streaming, _thread, _names, serial_open, port_io,
                   threads, gui_pc, swVars, clock, bufVars, extVars>>

set_device_name_All(serial_number_hex, name) ==
    /\ gui_pc = "idle"
    /\ serial_number_hex \in DOMAIN _names
    /\ _names' = [h \in DOMAIN _names |-> name]
    /\ renamed' = renamed \cup {serial_number_hex}
    /\ last' = "set_device_name"
    /\ UNCHANGED <<hwVars, dongles, all_sensors, wired_sensors, wireless_sensors,
                   _streaming, _thread, open_devices, serial_open, port_io, threads,
                   gui_pc, swVars, clock, bufVars, wire, emgVars, wrVars,
                   cmdVars,
                   auxVars>>

\* YostDeviceManager.set_device_name(serial_number_hex, name)
set_device_name(serial_number_hex, name) ==
    /\ gui_pc = "idle"
    /\ serial_number_hex \in DOMAIN _names
    /\ _names' = [_names EXCEPT ![serial_number_hex] = name]
    /\ renamed' = renamed \cup {serial_number_hex}
    /\ last' = "set_device_name"
    /\ UNCHANGED <<hwVars, dongles, all_sensors, wired_sensors, wireless_sensors,
                   _streaming, _thread, open_devices, serial_open, port_io, threads,
                   gui_pc, swVars, clock, bufVars, wire, emgVars, wrVars,
                   cmdVars,
                   auxVars>>

\* a device is plugged into a COM port
Plug(d) ==
    /\ d \notin attached
    /\ attached' = attached \cup {d}
    /\ last' = "other"
    /\ UNCHANGED <<hub_streaming, wired_streaming, dmVars, swVars, clock, bufVars, extVars>>

\* a device is pulled from its COM port; it is pulled only while the program
\* holds no handle to it and it is not streaming
Unplug(d) ==
    /\ d \in attached
    /\ d \notin serial_open /\ d \notin open_devices /\ d \notin wired_streaming
    /\ attached' = attached \ {d}
    /\ hub_streaming' = [x \in DongleIds |-> IF x = d THEN {} ELSE hub_streaming[x]]
    /\ wired_streaming' = wired_streaming \ {d}
    /\ last' = "other"
    /\ UNCHANGED <<dmVars, swVars, clock, bufVars, extVars>>

-----------------------------------------------------------------------------
(* bomi/widgets/scope_widget.py *)

\* selected_sensor_name = ... : no single sensor is selected
NoSelection == "..."

\* the selected_sensor_name a ScopeWidget is constructed with
Selections == {NoSelection, HEX(S1)}

\* l.index(x)
IndexOf(l, x) ==
    CHOOSE i \in 1..Len(l) : l[i] = x /\ \A j \in 1..(i - 1) : l[j] # x

\* self.dev_names.index(self.selected_sensor_name) raises ValueError
init_data_raises ==
    /\ selected_sensor_name # NoSelection
    /\ selected_sensor_name \notin SeqToSet(get_all_sensor_names)

\* ScopeWidget.init_data()
init_data ==
    LET all   == selected_sensor_name = NoSelection \/ init_data_raises
        shown == IF all THEN get_all_sensor_names ELSE <<selected_sensor_name>>
    IN  /\ queue' = <<>>
        /\ dev_names' = shown
        /\ dev_sn' = IF all THEN get_all_sensor_serial
                     ELSE <<get_all_sensor_serial[
                               IndexOf(get_all_sensor_names, selected_sensor_name)]>>
        /\ buffers' = IF init_data_raises THEN buffers
                      ELSE [n \in DOMAIN buffers \cup SeqToSet(shown) |->
                               IF n \in DOMAIN buffers THEN buffers[n] ELSE <<>>]

\* ScopeWidget.start_stream(): init_data, dm.start_stream(self.queue), timer.start()
Scope_start_stream ==
    /\ gui_pc = "idle"
    /\ ~init_data_raises /\ start_stream_proceeds /\ ~SetupResult.raised =>
            Cardinality(Started) < MaxThreads
    /\ init_data
    /\ IF init_data_raises
       THEN UNCHANGED <<hub_streaming, wired_streaming, dongles, all_sensors,
                        wired_sensors, wireless_sensors, _streaming, _thread,
                        open_devices, serial_open, port_io, threads, timer_active>>
       ELSE /\ start_stream
            /\ timer_active' = IF start_stream_proceeds /\ SetupResult.raised
                               THEN timer_active ELSE TRUE
    /\ last' = "start_stream"
    /\ UNCHANGED <<attached, _names, gui_pc, selected_sensor_name, clock, bufVars, extVars>>

\* ScopeWidget.stop_stream(): self.dm.stop_stream() up to the join, or all of
\* it with self.timer.stop() when there is nothing to join
Scope_stop_stream ==
    /\ gui_pc = "idle"
    /\ stop_stream_call
    /\ timer_active' = IF _thread # 0 /\ _streaming THEN timer_active ELSE FALSE
    /\ UNCHANGED <<hwVars, dongles, all_sensors, wired_sensors, wireless_sensors,
                   _thread, _names, open_devices, serial_open, port_io, threads,
                   queue, dev_names, dev_sn, buffers, selected_sensor_name, clock,
                   bufVars, extVars>>

\* the join returns, then self.timer.stop()
Scope_stop_stream_join ==
    /\ stop_stream_join
    /\ timer_active' = FALSE
    /\ UNCHANGED <<hwVars, dongles, all_sensors, wired_sensors, wireless_sensors,
                   _streaming, _names, open_devices, serial_open, port_io, threads,
                   queue, dev_names, dev_sn, buffers, selected_sensor_name, clock,
                   bufVars, extVars>>

\* buffer.add_packet(packet): the row handed to the device's buffer and log
BufferRow(packet) ==
    [t |-> packet.time, readings |-> packet.channel_readings, src |-> packet.src]

\* the packets ScopeWidget.update takes from the queue: range(qsize)
Taken_AllButLast(q) == SubSeq(q, 1, Len(q) - 1)

Taken(q) == q

RECURSIVE drain_NewestFirst(_, _)
drain_NewestFirst(q, bufs) ==
    IF q = <<>> THEN bufs
    ELSE drain_NewestFirst(SubSeq(q, 1, Len(q) - 1),
               IF q[Len(q)].device_name \in DOMAIN bufs
               THEN [bufs EXCEPT ![q[Len(q)].device_name] = Append(@, BufferRow(q[Len(q)]))]
               ELSE bufs)

\* packet = q.get(); buffers[packet.device_name].add_packet(packet), or
\* `continue` on KeyError
RECURSIVE drain(_, _)
drain(q, bufs) ==
    IF q = <<>> THEN bufs
    ELSE drain(Tail(q),
               IF Head(q).device_name \in DOMAIN bufs
               THEN [bufs EXCEPT ![Head(q).device_name] = Append(@, BufferRow(Head(q)))]
               ELSE bufs)

\* ScopeWidget.update(), run by the timer
update ==
    /\ gui_pc = "idle"
    /\ timer_active
    /\ buffers' = drain(Taken(queue), buffers)
    /\ queue' = SubSeq(queue, Len(Taken(queue)) + 1, Len(queue))
    /\ last' = "update"
    /\ UNCHANGED <<hwVars, dmVars, dev_names, dev_sn, timer_active,
                   selected_sensor_name, clock, bufVars, extVars>>

-----------------------------------------------------------------------------
(* bomi/device_managers/yost_widget.py : the operator's buttons *)

\* YostWidget.s_discover_devices: s_disconnect_all, then discover_devices
s_discover_devices == dm_discover_devices

\* YostWidget.s_disconnect_all
s_disconnect_all == dm_close_all_devices

\* self.queue = Queue(): maxsize is 0, and Queue.full() is 0 < maxsize <= qsize()
queue_maxsize == 0

-----------------------------------------------------------------------------
\* YostDeviceManager.__init__ and ScopeWidget.__init__
YostInit ==
    /\ hub_streaming = [d \in DongleIds |-> {}]
    /\ wired_streaming = {}
    /\ dongles = <<>>
    /\ all_sensors = <<>>
    /\ wired_sensors = <<>>
    /\ wireless_sensors = <<>>
    /\ _streaming = FALSE
    /\ _thread = 0
    /\ _names = <<>>
    /\ open_devices = {}
    /\ serial_open = {}
    /\ port_io = [d \in DongleIds |-> <<>>]
    /\ threads = [t \in ThreadIds |-> NoThread]
    /\ gui_pc = "idle"
    /\ queue = <<>>
    /\ dev_names = <<>>
    /\ dev_sn = <<>>
    /\ buffers = <<>>
    /\ timer_active = FALSE
    /\ selected_sensor_name \in Selections
    /\ clock = 0
    /\ last = "init"
    /\ wire = <<>>
    /\ renamed = {}

\* nothing is written through write_dongle_port / write_port on its own
NoRequest ==
    /\ wr_req = [logical_id |-> 0, cmd |-> 0, args |-> <<>>]
    /\ wr_command = <<>>

\* WiredSensors.__init__: no port is open yet
WiredInit ==
    /\ ws_ports = <<>>
    /\ ws_queue = <<>>
    /\ ws_reads = <<>>
    /\ ws_raised = FALSE

\* handle_stream before its loop: fps_packet_counter = 0
FpsInit ==
    /\ fps_packet_counter = 0
    /\ fps_first = TRUE
    /\ fps_pushed = 0
    /\ fps_report = <<>>
    /\ fps_pc = "loop"

\* no DelsysBuffer has been constructed yet
NoDelsys ==
    /\ ds_bufsize = 0
    /\ ds_data = <<>>
    /\ ds_timestamp = <<>>
    /\ ds_packets = <<>>
    /\ ds_calls = 0
    /\ ds_error = FALSE

\* the objects with a specification of their own, as constructed
\* no update is running
NoUpdate ==
    /\ upd_left = 0
    /\ upd_snapshot = <<>>
    /\ upd_taken = <<>>

\* ScopeWidget.__init__: last_state = TaskState.OUTSIDE, the two ranges from
\* the parameters' defaults
TaskInit ==
    /\ last_state = "OUTSIDE"
    /\ target_range = <<2, 3>>
    /\ base_range = <<0, 1>>
    /\ task_events = <<>>
    /\ task_meas = <<>>
    /\ task_emitted = <<>>

\* the objects with a specification of their own, as constructed
AuxInit == WiredInit /\ FpsInit /\ NoDelsys /\ NoUpdate /\ TaskInit

\* TrignoClient.__init__
TrignoInit ==
    /\ AuxInit
    /\ connected = FALSE
    /\ streaming = FALSE
    /\ worker_thread = "none"
    /\ command_sock = "new"
    /\ emg_data_sock = "new"
    /\ emg_pc = "idle"
    /\ emg_joined = FALSE
    /\ emg_sent = <<>>
    /\ base_streaming = FALSE
    /\ emg_stream = <<>>
    /\ emg_read = 0
    /\ emg_queue = <<>>
    /\ cmd_cmds = <<>>
    /\ cmd_pc = "idle"
    /\ cmd_sent = <<>>
    /\ cmd_answered = 0
    /\ cmd_stream = <<>>
    /\ cmd_replies = <<>>

\* the buffer object of SpecBuf stands idle in the other specifications
IdleBuf == BufInit /\ bufsize = 1 /\ ~averaged

\* no ScopeWidget: the caller of the manager's methods owns the queue
NoScope == selected_sensor_name = NoSelection

Init == YostInit /\ NoScope /\ attached = SeqToSet(ComPorts) /\ IdleBuf /\ TrignoInit /\ NoRequest

\* the device manager, driven through its methods, on changing hardware
Next ==
    \/ dm_discover_devices
    \/ dm_close_all_devices
    \/ dm_start_stream
    \/ dm_stop_stream
    \/ dm_stop_stream_join
    \/ \E t \in ThreadIds : handle_stream_loop(t)
    \/ \E t \in ThreadIds : handle_stream_finally(t)
    \/ \E d \in Pluggable : Plug(d)
    \/ \E d \in Pluggable : Unplug(d)

Spec == Init /\ [][Next]_vars

\* the device manager, driven by YostWidget and one ScopeWidget
ScopeNext ==
    \/ s_discover_devices
    \/ s_disconnect_all
    \/ \E d \in RenameSerials, name \in NickNames : set_device_name(HEX(d), name)
    \/ Scope_start_stream
    \/ Scope_stop_stream
    \/ Scope_stop_stream_join
    \/ update
    \/ \E t \in ThreadIds : handle_stream_loop(t)
    \/ \E t \in ThreadIds : handle_stream_finally(t)

ScopeInit == YostInit /\ attached = ScopeBench /\ IdleBuf /\ TrignoInit /\ NoRequest

SpecScope == ScopeInit /\ [][ScopeNext]_vars

-----------------------------------------------------------------------------
(* The ScopeWidget over sessions long enough for a sensor to send several   *)
(* samples before the timer fires                                           *)

MaxPasses == 2

handle_stream_pass(t) == loop_pass(t, MaxPasses)

OrderNext ==
    \/ s_discover_devices
    \/ Scope_start_stream
    \/ Scope_stop_stream
    \/ Scope_stop_stream_join
    \/ update
    \/ \E t \in ThreadIds : handle_stream_pass(t)
    \/ \E t \in ThreadIds : handle_stream_finally(t)

OrderInit == YostInit /\ attached = ScopeBench /\ IdleBuf /\ TrignoInit /\ NoRequest

SpecOrder == OrderInit /\ [][OrderNext]_vars

-----------------------------------------------------------------------------
(* ScopeWidget.update() statement by statement, while the worker threads    *)
(* push; the timer slot runs in the GUI thread, which does nothing else     *)
(* until update returns                                                     *)

\* qsize = q.qsize()
update_qsize ==
    /\ gui_pc = "idle"
    /\ timer_active
    /\ gui_pc' = "update"
    /\ upd_left' = Len(queue)
    /\ upd_snapshot' = queue
    /\ upd_taken' = <<>>
    /\ last' = "other"
    /\ UNCHANGED <<hwVars, dongles, all_sensors, wired_sensors, wireless_sensors,
                   _streaming, _thread, _names, open_devices, serial_open, port_io,
                   threads, swVars, clock, bufVars, wire, renamed, emgVars, wrVars,
                   cmdVars, wsVars, fpsVars, dsVars, taskVars>>

\* the packet of the newest push is taken instead of the oldest
update_get_Newest ==
    /\ gui_pc = "update"
    /\ upd_left > 0
    /\ queue # <<>>
    /\ LET packet == queue[Len(queue)]
       IN  /\ queue' = SubSeq(queue, 1, Len(queue) - 1)
           /\ upd_taken' = Append(upd_taken, packet)
           /\ buffers' = IF packet.device_name \in DOMAIN buffers
                         THEN [buffers EXCEPT ![packet.device_name] =
                                  Append(@, BufferRow(packet))]
                         ELSE buffers
    /\ upd_left' = upd_left - 1
    /\ last' = "q.get"
    /\ UNCHANGED <<hwVars, dmVars, dev_names, dev_sn, timer_active,
                   selected_sensor_name, clock, bufVars, wire, renamed, emgVars,
                   wrVars, cmdVars, wsVars, fpsVars, dsVars, upd_snapshot, taskVars>>

\* one iteration of `for _ in range(qsize)`: packet = q.get(), which waits
\* while the queue is empty; then buffers[packet.device_name].add_packet, or
\* `continue` on KeyError
update_get ==
    /\ gui_pc = "update"
    /\ upd_left > 0
    /\ queue # <<>>
    /\ LET packet == Head(queue)
       IN  /\ queue' = Tail(queue)
           /\ upd_taken' = Append(upd_taken, packet)
           /\ buffers' = IF packet.device_name \in DOMAIN buffers
                         THEN [buffers EXCEPT ![packet.device_name] =
                                  Append(@, BufferRow(packet))]
                         ELSE buffers
    /\ upd_left' = upd_left - 1
    /\ last' = "q.get"
    /\ UNCHANGED <<hwVars, dmVars, dev_names, dev_sn, timer_active,
                   selected_sensor_name, clock, bufVars, wire, renamed, emgVars,
                   wrVars, cmdVars, wsVars, fpsVars, dsVars, upd_snapshot, taskVars>>

\* the loop is over: the curves are drawn and update returns
update_return ==
    /\ gui_pc = "update"
    /\ upd_left = 0
    /\ gui_pc' = "idle"
    /\ last' = "update"
    /\ UNCHANGED <<hwVars, dongles, all_sensors, wired_sensors, wireless_sensors,
                   _streaming, _thread, _names, open_devices, serial_open, port_io,
                   threads, swVars, clock, bufVars, wire, renamed, emgVars, wrVars,
                   cmdVars, wsVars, fpsVars, dsVars, updVars, taskVars>>

UpdNext ==
    \/ s_discover_devices
    \/ Scope_start_stream
    \/ Scope_stop_stream
    \/ Scope_stop_stream_join
    \/ update_qsize
    \/ update_get
    \/ update_return
    \/ \E t \in ThreadIds : handle_stream_pass(t)
    \/ \E t \in ThreadIds : handle_stream_finally(t)

UpdInit == YostInit /\ attached = ScopeBench /\ IdleBuf /\ TrignoInit /\ NoRequest

SpecUpd == UpdInit /\ [][UpdNext]_vars

\* one buffer object, no device manager
BufOnlyInit == BufInit /\ YostInit /\ NoScope /\ attached = {} /\ TrignoInit /\ NoRequest

SpecBuf == BufOnlyInit /\ [][BufNext]_vars

\* a buffer longer than the default window of the moving average
LongBufsize == DEFAULT_MOVING_AVERAGE_POINTS + 1

\* AveragedMultichannelBuffer.__init__ with a short and with a long bufsize
AvgBufInit ==
    /\ bufsize \in {MaxBufsize, LongBufsize}
    /\ averaged = TRUE
    /\ timestamp = Zeros(bufsize, 0)
    /\ raw_data = Zeros(bufsize, Zeros(Len(channel_labels), Float(0)))
    /\ data = raw_data
    /\ sensor_fp = <<Header>>
    /\ disk = <<>>
    /\ fp_open = TRUE
    /\ added = <<>>

AvgInit == AvgBufInit /\ YostInit /\ NoScope /\ attached = {} /\ TrignoInit /\ NoRequest

\* the window does not depend on the packet times: one time is enough
AvgPackets == {packet \in Packets : packet.time = 1}

AvgNext ==
    \/ \E packet \in AvgPackets : add_packet(packet)
    \/ buffer_del

SpecAvg == AvgInit /\ [][AvgNext]_vars

-----------------------------------------------------------------------------
(* yost_serial_comm.py : WiredSensors, the sensors plugged in through USB *)

\* WiredSensors.names, one per port
ws_names == <<"w1", "w2">>

\* what port.read(self.out_sz) can return within the timeout of the port: the
\* out_sz bytes of one sample, or fewer bytes, down to none
WiredReads == [n : {0, out_sz - 1, out_sz}, v : Values]

\* struct.unpack(self.out_struct, raw) raises struct.error unless raw has
\* exactly out_sz bytes
ws_unpack_ok(raw) == raw.n = out_sz

\* the for loop of recv over zip(self.ports, self.names), from port i on
RECURSIVE ws_recv(_, _, _, _)
ws_recv(i, reads, now, acc) ==
    IF i > Len(reads) THEN acc
    ELSE IF ~ws_unpack_ok(reads[i])
         THEN [acc EXCEPT !.raised = TRUE]
         ELSE ws_recv(i + 1, reads, now,
                  [acc EXCEPT !.q = Append(@, [t |-> now, name |-> ws_names[i],
                                                v |-> reads[i].v])])

\* WiredSensors.__enter__: opens every port and starts its streaming
wired_enter ==
    /\ ws_ports = <<>>
    /\ ws_ports' = [i \in 1..Len(ws_names) |-> i]
    /\ ws_raised' = FALSE
    /\ ws_reads' = <<>>
    /\ UNCHANGED <<ws_queue, bufVars, yostVars, wire, renamed, emgVars, wrVars, cmdVars,
                   fpsVars, dsVars, updVars, taskVars>>

\* WiredSensors.recv(queue) inside the with block
wired_recv ==
    /\ ws_ports # <<>>
    /\ ~ws_raised
    /\ Len(ws_queue) + Len(ws_ports) <= MaxFrames * Len(ws_names)
    /\ \E reads \in [1..Len(ws_ports) -> WiredReads] :
         LET r == ws_recv(1, reads, Len(ws_queue), [q |-> ws_queue, raised |-> FALSE])
         IN  /\ ws_queue' = r.q
             /\ ws_raised' = r.raised
             /\ ws_reads' = reads
    /\ UNCHANGED <<ws_ports, bufVars, yostVars, wire, renamed, emgVars, wrVars, cmdVars,
                   fpsVars, dsVars, updVars, taskVars>>

\* WiredSensors.__exit__: stops the streaming and closes every port
wired_exit ==
    /\ ws_ports # <<>>
    /\ ws_ports' = <<>>
    /\ UNCHANGED <<ws_queue, ws_reads, ws_raised, bufVars, yostVars, wire, renamed,
                   emgVars, wrVars, cmdVars, fpsVars, dsVars, updVars, taskVars>>

WiredNext ==
    \/ wired_enter
    \/ wired_recv
    \/ wired_exit

WsInit == YostInit /\ NoScope /\ attached = {} /\ IdleBuf /\ TrignoInit /\ NoRequest

SpecWired == WsInit /\ [][WiredNext]_vars

-----------------------------------------------------------------------------
(* yost_manager.py : the throughput accounting at the end of every pass of  *)
(* the loop of handle_stream                                                *)

\* if fps_packet_counter % 1000 == 0:
fps_report_every == 1000

\* the most samples one pass pushes: one per wired sensor and per hub port
MaxPerPass == 2

\* the loop is followed while its counter is below this
MaxCounted == 2001

\* now - fps_start_time can be 0.0 only in the first pass, where the two
\* default_timer() calls follow each other with no read in between
ElapsedCanBeZero == fps_first

\* one pass of `while self._streaming:` that pushes k samples, each followed
\* by fps_packet_counter += 1, and then the test of the counter
fps_pass(k) ==
    /\ fps_pc = "loop"
    /\ fps_packet_counter < MaxCounted
    /\ fps_first' = FALSE
    /\ LET counter == fps_packet_counter + k
       IN  IF counter % fps_report_every = 0
           THEN \/ /\ fps_report' = <<counter>>
                   /\ fps_packet_counter' = 0
                   /\ fps_pushed' = 0
                   /\ fps_pc' = "loop"
                \* fps_packet_counter / 0.0 raises ZeroDivisionError, which
                \* `except Exception` catches outside the loop
                \/ /\ ElapsedCanBeZero
                   /\ fps_report' = <<>>
                   /\ fps_packet_counter' = counter
                   /\ fps_pushed' = fps_pushed + k
                   /\ fps_pc' = "ended"
           ELSE /\ fps_report' = <<>>
                /\ fps_packet_counter' = counter
                /\ fps_pushed' = fps_pushed + k
                /\ fps_pc' = "loop"
    /\ UNCHANGED <<bufVars, yostVars, wire, renamed, emgVars, wrVars, cmdVars, wsVars,
                   dsVars, updVars, taskVars>>

FpsNext == \E k \in 0..MaxPerPass : fps_pass(k)

FpsOnlyInit == YostInit /\ NoScope /\ attached = {} /\ IdleBuf /\ TrignoInit /\ NoRequest

SpecFps == FpsOnlyInit /\ [][FpsNext]_vars

-----------------------------------------------------------------------------
(* bomi/datastructure.py : DelsysBuffer, the ring of EMG frames *)

\* the sizes a DelsysBuffer is constructed with
MaxDelsys == 3

\* an EMG frame, one row of 16 floats, is copied as a whole: one value each
Frames == {1, 2}

\* the arrays handed to add_packets: any number of frames from none to one
\* more than the largest buffer holds
FrameBatches == UNION {[1..n -> Frames] : n \in 0..(MaxDelsys + 1)}

\* a slice bound i of a sequence of length len: negative bounds count from
\* the end, and every bound is clipped to 0..len
SliceBound(i, len) ==
    IF i < 0 THEN (IF len + i < 0 THEN 0 ELSE len + i)
    ELSE IF i > len THEN len ELSE i

\* a[lo:hi] as the pair of 0-based bounds numpy uses
Slice(lo, hi, len) ==
    LET b == SliceBound(lo, len)
        e == SliceBound(hi, len)
    IN  [first |-> b, stop |-> IF e < b THEN b ELSE e]

\* a[sl]
Sliced(a, sl) == SubSeq(a, sl.first + 1, sl.stop)

\* a[sl] = src is accepted when src has the length of the slice, or has one
\* row, which is broadcast; otherwise it raises ValueError
Assignable(sl, src) ==
    \/ Len(src) = sl.stop - sl.first
    \/ Len(src) = 1

\* a after a[sl] = src
Assigned(a, sl, src) ==
    [i \in 1..Len(a) |->
        IF i > sl.first /\ i <= sl.stop
        THEN (IF Len(src) = 1 THEN src[1] ELSE src[i - sl.first])
        ELSE a[i]]

\* the tail assignment is a[-1:] = packets: every call stores one frame
add_packets_ring_TailOnly(ring, n, rows) ==
    LET len    == Len(ring)
        toHead == Slice(0, -1, len)
        fromN  == Slice(1, len, len)
        toTail == Slice(-1, len, len)
        moved  == Assigned(ring, toHead, Sliced(ring, fromN))
    IN  IF ~Assignable(toHead, Sliced(ring, fromN)) THEN [ok |-> FALSE, ring |-> ring]
        ELSE IF ~Assignable(toTail, rows) THEN [ok |-> FALSE, ring |-> moved]
        ELSE [ok |-> TRUE, ring |-> Assigned(moved, toTail, rows)]

\* ring[:-n] = ring[n:] ; ring[-n:] = rows, statement by statement
add_packets_ring(ring, n, rows) ==
    LET len    == Len(ring)
        toHead == Slice(0, -n, len)
        fromN  == Slice(n, len, len)
        toTail == Slice(-n, len, len)
        moved  == Assigned(ring, toHead, Sliced(ring, fromN))
    IN  IF ~Assignable(toHead, Sliced(ring, fromN)) THEN [ok |-> FALSE, ring |-> ring]
        ELSE IF ~Assignable(toTail, rows) THEN [ok |-> FALSE, ring |-> moved]
        ELSE [ok |-> TRUE, ring |-> Assigned(moved, toTail, rows)]

\* DelsysBuffer(bufsize, savedir)
DelsysBuffer(n) ==
    /\ ds_bufsize = 0
    /\ ds_bufsize' = n
    /\ ds_data' = Zeros(n, 0)
    /\ ds_timestamp' = Zeros(n, 0)
    /\ UNCHANGED <<ds_packets, ds_calls, ds_error, bufVars, yostVars, wire, renamed,
                   emgVars, wrVars, cmdVars, wsVars, fpsVars, updVars, taskVars>>

\* DelsysBuffer.add_packet(packet)
delsys_add_packet(packet) ==
    /\ ds_bufsize > 0
    /\ ds_calls < MaxAdds
    /\ ds_calls' = ds_calls + 1
    /\ ds_data' = ShiftLeft(ds_data, packet)
    /\ ds_timestamp' = ShiftLeft(ds_timestamp, ds_calls + 1)
    /\ ds_packets' = <<>>
    /\ ds_error' = FALSE
    /\ UNCHANGED <<ds_bufsize, bufVars, yostVars, wire, renamed, emgVars, wrVars, cmdVars,
                   wsVars, fpsVars, updVars, taskVars>>

\* DelsysBuffer.add_packets(packets); default_timer() is the number of the call
add_packets(packets) ==
    /\ ds_bufsize > 0
    /\ ds_calls < MaxAdds
    /\ ds_calls' = ds_calls + 1
    /\ ds_packets' = packets
    /\ LET n == Len(packets)
           d == add_packets_ring(ds_data, n, packets)
           t == add_packets_ring(ds_timestamp, n, Zeros(n, ds_calls + 1))
       IN  /\ ds_data' = d.ring
           /\ ds_timestamp' = IF d.ok THEN t.ring ELSE ds_timestamp
           /\ ds_error' = ~(d.ok /\ t.ok)
    /\ UNCHANGED <<ds_bufsize, bufVars, yostVars, wire, renamed, emgVars, wrVars, cmdVars,
                   wsVars, fpsVars, updVars, taskVars>>

DelsysNext ==
    \/ \E n \in 1..MaxDelsys : DelsysBuffer(n)
    \/ \E packet \in Frames : delsys_add_packet(packet)
    \/ \E packets \in FrameBatches : add_packets(packets)

DelsysOnlyInit == YostInit /\ NoScope /\ attached = {} /\ IdleBuf /\ TrignoInit /\ NoRequest

SpecDelsys == DelsysOnlyInit /\ [][DelsysNext]_vars

-----------------------------------------------------------------------------
(* widgets/scope_widget.py : the task events at the end of update() *)

\* the events that are followed
MaxEvents == 4

\* the devices of self.dev_names that an update evaluates, in order
TaskDevices == 2

\* the most recent measurement of the selected channel
Measurements == 0..3

\* the ranges the operator can set for the target and for the base
Ranges == {<<0, 1>>, <<1, 2>>, <<2, 3>>}

\* lo <= most_recent_measurement <= hi
Within(m, range) == range[1] <= m /\ m <= range[2]

\* the tests are four separate if statements: after an exit the same device
\* is tested for an entry as well
task_step_NoElif(st, m) ==
    LET left == IF st = "IN_TARGET" /\ ~Within(m, target_range) THEN <<"EXIT_TARGET">>
                ELSE IF st = "IN_BASE" /\ ~Within(m, base_range) THEN <<"EXIT_BASE">>
                ELSE <<>>
        mid  == IF left # <<>> THEN "OUTSIDE" ELSE st
    IN  IF mid # "OUTSIDE" THEN [state |-> mid, events |-> left]
        ELSE IF Within(m, target_range)
             THEN [state |-> "IN_TARGET", events |-> left \o <<"ENTER_TARGET">>]
        ELSE IF Within(m, base_range)
             THEN [state |-> "IN_BASE", events |-> left \o <<"ENTER_BASE">>]
        ELSE [state |-> mid, events |-> left]

\* the if / elif / else on self.last_state for one device with measurement m
task_step(st, m) ==
    IF st = "IN_TARGET"
    THEN IF ~Within(m, target_range)
         THEN [state |-> "OUTSIDE", events |-> <<"EXIT_TARGET">>]
         ELSE [state |-> st, events |-> <<>>]
    ELSE IF st = "IN_BASE"
    THEN IF ~Within(m, base_range)
         THEN [state |-> "OUTSIDE", events |-> <<"EXIT_BASE">>]
         ELSE [state |-> st, events |-> <<>>]
    ELSE IF Within(m, target_range)
         THEN [state |-> "IN_TARGET", events |-> <<"ENTER_TARGET">>]
    ELSE IF Within(m, base_range)
         THEN [state |-> "IN_BASE", events |-> <<"ENTER_BASE">>]
    ELSE [state |-> st, events |-> <<>>]

\* for name in self.dev_names: ..., from device i on
RECURSIVE task_loop(_, _, _)
task_loop(i, ms, acc) ==
    IF i > Len(ms) THEN acc
    ELSE LET r == task_step(acc.state, ms[i])
         IN  task_loop(i + 1, ms,
                 [state |-> r.state, emitted |-> Append(acc.emitted, r.events)])

RECURSIVE Concat(_)
Concat(ss) == IF ss = <<>> THEN <<>> ELSE Head(ss) \o Concat(Tail(ss))

\* the part of ScopeWidget.update() under `if self.task_widget:`
update_task(ms) ==
    /\ Len(task_events) < MaxEvents
    /\ LET r == task_loop(1, ms, [state |-> last_state, emitted |-> <<>>])
       IN  /\ last_state' = r.state
           /\ task_emitted' = r.emitted
           /\ task_events' = task_events \o Concat(r.emitted)
    /\ task_meas' = ms
    /\ UNCHANGED <<target_range, base_range, bufVars, yostVars, wire, renamed, emgVars,
                   wrVars, cmdVars, wsVars, fpsVars, dsVars, updVars>>

\* ScopeWidget.update_targets(): the operator moves the target
update_targets(range) ==
    /\ target_range' = range
    /\ task_meas' = <<>>
    /\ task_emitted' = <<>>
    /\ UNCHANGED <<last_state, base_range, task_events, bufVars, yostVars, wire, renamed,
                   emgVars, wrVars, cmdVars, wsVars, fpsVars, dsVars, updVars>>

\* ScopeWidget.update_base(): the operator moves the base
update_base(range) ==
    /\ base_range' = range
    /\ task_meas' = <<>>
    /\ task_emitted' = <<>>
    /\ UNCHANGED <<last_state, target_range, task_events, bufVars, yostVars, wire,
                   renamed, emgVars, wrVars, cmdVars, wsVars, fpsVars, dsVars, updVars>>

TaskNext ==
    \/ \E ms \in [1..TaskDevices -> Measurements] : update_task(ms)
    \/ \E range \in Ranges : update_targets(range)
    \/ \E range \in Ranges : update_base(range)

TaskOnlyInit == YostInit /\ NoScope /\ attached = {} /\ IdleBuf /\ TrignoInit /\ NoRequest

SpecTask == TaskOnlyInit /\ [][TaskNext]_vars

-----------------------------------------------------------------------------
(* add_packet on packets whose channel_readings lack a label *)

\* dicts over any subset of the labels
LooseDicts == UNION {[keys -> Values] : keys \in SUBSET {"a", "b"}}

\* the lookup does not depend on the packet time: one time is enough
LoosePackets ==
    {packet \in [time : Times, channel_readings : LooseDicts] : packet.time = 1}

\* packet.channel_readings[key] succeeds for every key of channel_labels
HasAllLabels(packet) ==
    \A i \in 1..Len(channel_labels) :
        channel_labels[i] \in DOMAIN packet.channel_readings

\* the row and the shift come before the lookup of the readings
buffer_add_packet_WriteFirst(packet) ==
    IF HasAllLabels(packet)
    THEN add_packet(packet)
    ELSE /\ fp_open
         /\ sensor_fp' = Append(sensor_fp, <<packet.time>>)
         /\ timestamp' = ShiftLeft(timestamp, packet.time)
         /\ last' = "KeyError"
         /\ UNCHANGED <<bufsize, averaged, raw_data, data, disk, fp_open, added,
                        hwVars, dmVars, swVars, clock, extVars>>

\* buffer.add_packet(packet): the tuple of readings is built first, and the
\* lookup of a missing label raises KeyError before anything is written
buffer_add_packet(packet) ==
    IF HasAllLabels(packet)
    THEN add_packet(packet)
    ELSE /\ fp_open
         /\ last' = "KeyError"
         /\ UNCHANGED <<bufVars, hwVars, dmVars, swVars, clock, extVars>>

LooseNext ==
    \/ \E packet \in LoosePackets : buffer_add_packet(packet)
    \/ io_flush
    \/ buffer_del

LooseInit == BufInit /\ YostInit /\ NoScope /\ attached = {} /\ TrignoInit /\ NoRequest

SpecLoose == LooseInit /\ [][LooseNext]_vars

-----------------------------------------------------------------------------
(* The same manager on a faulty serial link: frames arrive damaged, short   *)
(* or for a slot nobody streams, and the hub can be pulled while it streams *)

\* the highest slot of the hub's table no sensor is bound to
UnboundSlot(d) ==
    CHOOSE s \in Slots : /\ wireless_table[d][s] = 0
                         /\ \A u \in Slots : wireless_table[d][u] = 0 => u <= s

\* a well-formed frame for a slot that is not in the caller's wl_mp
UnknownSlotFrames(d) ==
    {[HubFrame(d, 0, UnboundSlot(d)) EXCEPT !.src = 0]}

\* a frame that stops short: no length byte, or a payload cut by the timeout;
\* and a frame whose length byte is not the configured payload size
ShortFrames(d) ==
    UNION {{[HubFrame(d, 0, s) EXCEPT !.len = <<>>, !.n = 0],
            [HubFrame(d, 0, s) EXCEPT !.n = out_sz - 1],
            [HubFrame(d, 0, s) EXCEPT !.len = <<out_sz + 1>>, !.n = out_sz + 1]}
           : s \in hub_streaming[d]}

\* the frame of the sensor at slot s with exactly one byte changed on the way:
\* the fail byte, the slot byte, the length byte or a payload byte
CorruptedFrames(d) ==
    UNION {{[HubFrame(d, 0, s) EXCEPT !.hdr = <<1, s>>],
            [HubFrame(d, 0, s) EXCEPT !.len = <<out_sz - 1>>],
            [HubFrame(d, 0, s) EXCEPT !.v = SentValue + 1]}
           \cup {[HubFrame(d, 0, s) EXCEPT !.hdr = <<0, u>>] :
                    u \in (hub_streaming[d] \cup {UnboundSlot(d)}) \ {s}}
           : s \in hub_streaming[d]}

FaultReads(d) ==
    WireReads(d) \cup UnknownSlotFrames(d) \cup ShortFrames(d) \cup CorruptedFrames(d)

FaultChoices(ports) ==
    {ws \in [1..Len(ports) -> UNION {FaultReads(d) : d \in DongleIds}] :
        \A i \in 1..Len(ports) : ws[i] \in FaultReads(ports[i].name)}

\* one pass of `while self._streaming:` in handle_stream on the faulty link
handle_stream_recv(t) ==
    /\ threads[t].pc = "loop"
    /\ IF ~_streaming
       THEN /\ threads' = [threads EXCEPT ![t].pc = "finally"]
            /\ last' = "other"
            /\ UNCHANGED <<queue, clock, wire>>
       ELSE /\ clock < MaxClock
            /\ clock' = clock + 1
            /\ \E ws \in FaultChoices(threads[t].ports) :
                 LET w == read_wired(wired_sensors, clock, [q |-> queue, raised |-> FALSE])
                     r == read_ports(threads[t].ports, ws, clock, w)
                 IN  /\ queue' = r.q
                     /\ threads' = [threads EXCEPT ![t].pc =
                                        IF r.raised THEN "finally" ELSE "loop"]
                     /\ wire' = ws
            /\ last' = "recv"
    /\ UNCHANGED <<hwVars, dongles, all_sensors, wired_sensors, wireless_sensors,
                   _streaming, _thread, _names, open_devices, serial_open, port_io,
                   gui_pc, dev_names, dev_sn, buffers, timer_active,
                   selected_sensor_name, bufVars, renamed, emgVars, wrVars,
                   cmdVars,
                   auxVars>>

\* the hub is pulled from its COM port while the program streams from it
Yank(d) ==
    /\ d \in attached
    /\ d \in serial_open
    /\ attached' = attached \ {d}
    /\ hub_streaming' = [x \in DongleIds |-> IF x = d THEN {} ELSE hub_streaming[x]]
    /\ last' = "other"
    /\ UNCHANGED <<wired_streaming, dmVars, swVars, clock, bufVars, extVars>>

FaultNext ==
    \/ dm_discover_devices
    \/ dm_start_stream
    \/ dm_stop_stream
    \/ dm_stop_stream_join
    \/ \E t \in ThreadIds : handle_stream_recv(t)
    \/ \E t \in ThreadIds : handle_stream_finally(t)
    \/ \E d \in ScopeBench : Yank(d)

FaultInit == YostInit /\ NoScope /\ attached = ScopeBench /\ IdleBuf /\ TrignoInit /\ NoRequest

SpecFault == FaultInit /\ [][FaultNext]_vars

-----------------------------------------------------------------------------
(* The same manager with two hubs in one session, either of which can be    *)
(* pulled while the session runs                                            *)

\* the hubs on the bench of the two-transport sessions
HubBench == {D1, D2}

HubsNext ==
    \/ dm_discover_devices
    \/ dm_start_stream
    \/ dm_stop_stream
    \/ dm_stop_stream_join
    \/ \E t \in ThreadIds : handle_stream_loop(t)
    \/ \E t \in ThreadIds : handle_stream_finally(t)
    \/ \E d \in HubBench : Yank(d)

HubsInit == YostInit /\ NoScope /\ attached = HubBench /\ IdleBuf /\ TrignoInit /\ NoRequest

SpecHubs == HubsInit /\ [][HubsNext]_vars

-----------------------------------------------------------------------------
(* The worker's pass in two steps, as the threads interleave: the test of   *)
(* `while self._streaming`, then the blocking reads and the pushes          *)

\* `while self._streaming:` is evaluated
handle_stream_check(t) ==
    /\ threads[t].pc = "loop"
    /\ threads' = [threads EXCEPT ![t].pc =
                      IF _streaming THEN "reading" ELSE "finally"]
    /\ last' = "other"
    /\ UNCHANGED <<hwVars, dongles, all_sensors, wired_sensors, wireless_sensors,
                   _streaming, _thread, _names, open_devices, serial_open, port_io,
                   gui_pc, swVars, clock, bufVars, extVars>>

\* the body of the loop: the reads (each blocks for up to the port's timeout)
\* and queue.append for every sample read
handle_stream_body(t) ==
    /\ threads[t].pc = "reading"
    /\ clock < MaxClock
    /\ clock' = clock + 1
    /\ \E ws \in WireChoices(threads[t].ports) :
         LET w == read_wired(wired_sensors, clock, [q |-> queue, raised |-> FALSE])
             r == read_ports(threads[t].ports, ws, clock, w)
         IN  /\ queue' = r.q
             /\ threads' = [threads EXCEPT ![t].pc =
                                IF r.raised THEN "finally" ELSE "loop"]
    /\ last' = "recv"
    /\ UNCHANGED <<hwVars, dongles, all_sensors, wired_sensors, wireless_sensors,
                   _streaming, _thread, _names, open_devices, serial_open, port_io,
                   gui_pc, dev_names, dev_sn, buffers, timer_active,
                   selected_sensor_name, bufVars, extVars>>

DrainNext ==
    \/ dm_discover_devices
    \/ dm_start_stream
    \/ dm_stop_stream
    \/ dm_stop_stream_join
    \/ \E t \in ThreadIds : handle_stream_check(t)
    \/ \E t \in ThreadIds : handle_stream_body(t)
    \/ \E t \in ThreadIds : handle_stream_finally(t)

DrainInit == YostInit /\ NoScope /\ attached = ScopeBench /\ IdleBuf /\ TrignoInit /\ NoRequest

SpecDrain == DrainInit /\ [][DrainNext]_vars

-----------------------------------------------------------------------------
(* trigno_sdk/client.py : TrignoClient and the EMG data channel *)

\* recv_emg asks for 4 * 16 bytes: 16 devices, 4 byte float
emg_frame_sz == 4 * 16

\* a frame as the base station writes it: whether its first and its last byte
\* happen to be an ASCII whitespace byte (bytes.strip() removes those)
FrameKinds == [lead : BOOLEAN, trail : BOOLEAN]

\* byte i of the data channel (1-based) is an ASCII whitespace byte
IsSpace(stream, i) ==
    LET f == ((i - 1) \div emg_frame_sz) + 1
        pos == ((i - 1) % emg_frame_sz) + 1
    IN  \/ pos = 1 /\ stream[f].lead
        \/ pos = emg_frame_sz /\ stream[f].trail

\* buf.strip() on the bytes a..b of the channel: the bytes that are left
RECURSIVE StripLeft(_, _, _)
StripLeft(stream, a, b) ==
    IF a > b THEN a
    ELSE IF IsSpace(stream, a) THEN StripLeft(stream, a + 1, b) ELSE a

RECURSIVE StripRight(_, _, _)
StripRight(stream, a, b) ==
    IF a > b THEN b
    ELSE IF IsSpace(stream, b) THEN StripRight(stream, a, b - 1) ELSE b

recv_NoStrip(stream, a, b) == [first |-> a, last |-> b]

\* recv(sock, maxlen): buf = sock.recv(maxlen); return buf.strip()
recv(stream, a, b) ==
    [first |-> StripLeft(stream, a, b),
     last |-> StripRight(stream, StripLeft(stream, a, b), b)]

\* how many bytes one sock.recv(maxlen) returns: what has arrived, at most
\* maxlen; half a frame stands for every short read
ReadSizes(avail, maxlen) == {k \in {maxlen \div 2, maxlen} : k <= avail}

\* struct.unpack("<ffffffffffffffff", buf) raises struct.error unless
\* len(buf) == 64
unpack_ok(buf) == buf.last - buf.first + 1 = emg_frame_sz

\* TrignoClient.connect(): connects both sockets, then queries the base
emg_connect ==
    /\ emg_pc = "idle"
    /\ command_sock # "closed"
    /\ connected' = TRUE
    /\ command_sock' = "connected"
    /\ emg_data_sock' = "connected"
    /\ emg_sent' = <<"QUERY">>
    /\ last' = "emg_connect"
    /\ UNCHANGED <<nonEmgVars, streaming, worker_thread, emg_pc, emg_joined, base_streaming,
                   emg_stream, emg_read, emg_queue>>

\* TrignoClient.handle_stream(queue): start_stream() and the worker thread
emg_handle_stream ==
    /\ emg_pc = "idle"
    /\ worker_thread # "running"
    /\ IF ~connected
       THEN UNCHANGED <<streaming, worker_thread, emg_sent, base_streaming>>
       ELSE /\ emg_sent' = <<"START">>
            /\ base_streaming' = TRUE
            /\ streaming' = TRUE
            /\ worker_thread' = "running"
    /\ last' = "emg_handle_stream"
    /\ UNCHANGED <<nonEmgVars, connected, command_sock, emg_data_sock, emg_pc, emg_joined,
                   emg_stream, emg_read, emg_queue>>

\* the base station writes one frame of 16 floats to the data channel
base_send ==
    /\ base_streaming
    /\ Len(emg_stream) < MaxFrames
    /\ \E f \in FrameKinds : emg_stream' = Append(emg_stream, f)
    /\ last' = "other"
    /\ UNCHANGED <<nonEmgVars, connected, streaming, worker_thread, command_sock, emg_data_sock,
                   emg_pc, emg_joined, emg_sent, base_streaming, emg_read, emg_queue>>

\* one pass of `while self.streaming: queue.append(self.recv_emg())`;
\* sock.recv blocks until a byte has arrived; struct.error ends the thread
stream_worker ==
    /\ worker_thread = "running"
    /\ IF ~streaming
       THEN /\ worker_thread' = "finished"
            /\ last' = "other"
            /\ UNCHANGED <<emg_read, emg_queue>>
       ELSE \E k \in ReadSizes(emg_frame_sz * Len(emg_stream) - emg_read, emg_frame_sz) :
              LET buf == recv(emg_stream, emg_read + 1, emg_read + k)
              IN  /\ emg_read' = emg_read + k
                  /\ IF unpack_ok(buf)
                     THEN /\ emg_queue' = Append(emg_queue, buf)
                          /\ UNCHANGED worker_thread
                     ELSE /\ worker_thread' = "crashed"
                          /\ UNCHANGED emg_queue
                  /\ last' = "recv_emg"
    /\ UNCHANGED <<nonEmgVars, connected, streaming, command_sock, emg_data_sock, emg_pc,
                   emg_joined, emg_sent, base_streaming, emg_stream>>

\* the rest of stop_stream after the join: if self.connected: send_cmd("STOP")
emg_send_stop ==
    IF connected
    THEN emg_sent' = <<"STOP">> /\ base_streaming' = FALSE
    ELSE emg_sent' = <<>> /\ UNCHANGED base_streaming

\* the rest of close() after stop_stream(): QUIT, close both sockets
emg_send_quit ==
    /\ emg_sent' = (IF connected THEN <<"STOP", "QUIT">> ELSE <<>>)
    /\ base_streaming' = (IF connected THEN FALSE ELSE base_streaming)
    /\ connected' = FALSE
    /\ command_sock' = "closed"
    /\ emg_data_sock' = "closed"

\* TrignoClient.stop_stream(); join() of a thread that has ended returns at once
emg_stop_stream ==
    /\ emg_pc = "idle"
    /\ streaming' = FALSE
    /\ emg_joined' = (worker_thread # "none")
    /\ IF worker_thread = "running"
       THEN /\ emg_pc' = "stop_stream"
            /\ last' = "other"
            /\ UNCHANGED <<emg_sent, base_streaming>>
       ELSE /\ emg_send_stop
            /\ last' = "emg_stop_stream"
            /\ UNCHANGED emg_pc
    /\ UNCHANGED <<nonEmgVars, connected, worker_thread, command_sock, emg_data_sock,
                   emg_stream, emg_read, emg_queue>>

\* the join inside stop_stream returns
emg_stop_stream_join ==
    /\ emg_pc = "stop_stream"
    /\ worker_thread # "running"
    /\ emg_send_stop
    /\ emg_pc' = "idle"
    /\ last' = "emg_stop_stream"
    /\ UNCHANGED <<nonEmgVars, connected, streaming, worker_thread, command_sock, emg_data_sock,
                   emg_joined, emg_stream, emg_read, emg_queue>>

\* TrignoClient.close()
emg_close ==
    /\ emg_pc = "idle"
    /\ streaming' = FALSE
    /\ emg_joined' = (worker_thread # "none")
    /\ IF worker_thread = "running"
       THEN /\ emg_pc' = "close"
            /\ last' = "other"
            /\ UNCHANGED <<connected, command_sock, emg_data_sock, emg_sent,
                           base_streaming>>
       ELSE /\ emg_send_quit
            /\ last' = "emg_close"
            /\ UNCHANGED emg_pc
    /\ UNCHANGED <<nonEmgVars, worker_thread, emg_stream, emg_read, emg_queue>>

\* the join inside close() returns
emg_close_join ==
    /\ emg_pc = "close"
    /\ worker_thread # "running"
    /\ emg_send_quit
    /\ emg_pc' = "idle"
    /\ last' = "emg_close"
    /\ UNCHANGED <<nonEmgVars, streaming, worker_thread, emg_joined, emg_stream, emg_read,
                   emg_queue>>

EmgNext ==
    \/ emg_connect
    \/ emg_handle_stream
    \/ base_send
    \/ stream_worker
    \/ emg_stop_stream
    \/ emg_stop_stream_join
    \/ emg_close
    \/ emg_close_join

\* one TrignoClient and its base station, no Yost manager
EmgInit == YostInit /\ NoScope /\ attached = {} /\ IdleBuf /\ TrignoInit /\ NoRequest

SpecEmg == EmgInit /\ [][EmgNext]_vars

-----------------------------------------------------------------------------
(* trigno_sdk/client.py : connect() command by command *)

ConnectCmds_EndianLast ==
    <<"BACKWARDS COMPATIBILITY?", "UPSAMPLING?", "FRAME INTERVAL?",
      "MAX SAMPLES EMG?", "MAX SAMPLES AUX?", "ENDIANNESS?", "BASE FIRMWARE?",
      "BASE SERIAL?", "ENDIAN LITTLE">>

\* the commands connect() hands to send_cmd, in the order of its statements
ConnectCmds ==
    <<"ENDIAN LITTLE", "BACKWARDS COMPATIBILITY?", "UPSAMPLING?",
      "FRAME INTERVAL?", "MAX SAMPLES EMG?", "MAX SAMPLES AUX?", "ENDIANNESS?",
      "BASE FIRMWARE?", "BASE SERIAL?">>

\* TrignoClient.connect() where k commands go out: k = 0 is the TimeoutError
\* of the socket connect, after which connect returns; with k below the
\* number of commands the reply to command k does not come within the socket
\* timeout and recv raises out of connect
connect(k) ==
    /\ emg_pc = "idle"
    /\ command_sock # "closed"
    /\ IF k = 0
       THEN /\ ~connected
            /\ emg_sent' = <<>>
            /\ UNCHANGED <<connected, command_sock, emg_data_sock>>
       ELSE /\ connected' = TRUE
            /\ command_sock' = "connected"
            /\ emg_data_sock' = "connected"
            /\ emg_sent' = SubSeq(ConnectCmds, 1, k)
    /\ last' = "connect"
    /\ UNCHANGED <<nonEmgVars, streaming, worker_thread, emg_pc, emg_joined, base_streaming,
                   emg_stream, emg_read, emg_queue>>

ConnNext ==
    \/ \E k \in 0..Len(ConnectCmds) : connect(k)
    \/ emg_handle_stream
    \/ base_send
    \/ stream_worker
    \/ emg_stop_stream
    \/ emg_stop_stream_join
    \/ emg_close
    \/ emg_close_join

ConnInit == YostInit /\ NoScope /\ attached = {} /\ IdleBuf /\ TrignoInit /\ NoRequest

SpecConn == ConnInit /\ [][ConnNext]_vars

-----------------------------------------------------------------------------
(* yost_serial_comm.py : the request frames, byte by byte *)

\* the byte values the requests are built from
Bytes == {0, 1, 15, 85, 128, 255}

\* the logical ids of a dongle's table
LogicalIds == {0, 1, 15}

ArgSeqs == UNION {[1..n -> Bytes] : n \in 0..MaxArgs}

\* Cmd.__call__(*args): bytes((self.cmd,)) + struct.pack(self.in_struct, *args)
Cmd(cmd, args) == <<cmd>> \o args

checksum_WithStartByte(start, payload) == (start + SumSeq(payload)) % 256

checksum_Unreduced(start, payload) == SumSeq(payload)

\* checksum = sum(data) % 256, for a frame that will begin with byte `start`
checksum(start, payload) == SumSeq(payload) % 256

\* write_dongle_port(port, data, logical_id) : the bytes of port.write
write_dongle_port(payload, logical_id) ==
    <<248>> \o (<<logical_id>> \o payload)
            \o <<checksum(248, <<logical_id>> \o payload)>>

\* write_port(port, data) : the bytes of port.write
write_port(payload) ==
    <<247>> \o payload \o <<checksum(247, payload)>>

\* a request is written through a dongle to the sensor at logical_id
wr_dongle ==
    /\ wr_command = <<>>
    /\ wr_command' = write_dongle_port(Cmd(wr_req.cmd, wr_req.args), wr_req.logical_id)
    /\ last' = "write_dongle_port"
    /\ UNCHANGED <<wr_req, bufVars, hwVars, dmVars, swVars, clock, wire, renamed,
                   emgVars, cmdVars,
                   auxVars>>

\* a request is written to a wired sensor
wr_wired ==
    /\ wr_command = <<>>
    /\ wr_command' = write_port(Cmd(wr_req.cmd, wr_req.args))
    /\ last' = "write_port"
    /\ UNCHANGED <<wr_req, bufVars, hwVars, dmVars, swVars, clock, wire, renamed,
                   emgVars, cmdVars,
                   auxVars>>

WrNext == wr_dongle \/ wr_wired

WrInit ==
    /\ YostInit /\ NoScope /\ attached = {} /\ IdleBuf /\ TrignoInit
    /\ wr_req \in [logical_id : LogicalIds, cmd : Bytes, args : ArgSeqs]
    /\ wr_command = <<>>

SpecWr == WrInit /\ [][WrNext]_vars

-----------------------------------------------------------------------------
(* trigno_sdk/client.py : send_cmds on the command channel *)

MaxCmds == 2

\* the commands of a call, by number
CommandIds == {1, 2}

CmdSeqs == UNION {[1..n -> CommandIds] : n \in 1..MaxCmds}

\* the bytes of the channel: k = 0 is a CR LF (white space to bytes.strip()),
\* k = 1 the text of command c, k = 2 and k = 3 the text of the reply to it
CRLF == [c |-> 0, k |-> 0]

\* cmd.encode()
CmdText(c) == [c |-> c, k |-> 1]

\* the line the base station answers command c with
ReplyText(c) == <<[c |-> c, k |-> 2], [c |-> c, k |-> 3]>>

ReplyLine(c) == ReplyText(c) \o <<CRLF>>

\* for cmd in cmds: send(cmd.encode() + b"\r\n"); then send(b"\r\n")
RECURSIVE SentBytes(_)
SentBytes(cmds) ==
    IF cmds = <<>> THEN <<CRLF>>
    ELSE <<CmdText(Head(cmds)), CRLF>> \o SentBytes(Tail(cmds))

\* buf.strip()
RECURSIVE lstrip(_)
lstrip(buf) == IF buf # <<>> /\ Head(buf).k = 0 THEN lstrip(Tail(buf)) ELSE buf

RECURSIVE rstrip(_)
rstrip(buf) ==
    IF buf # <<>> /\ buf[Len(buf)].k = 0 THEN rstrip(SubSeq(buf, 1, Len(buf) - 1))
    ELSE buf

strip(buf) == rstrip(lstrip(buf))

\* recv(sock): sock.recv(maxlen) returns the n bytes that have arrived
recv_command_sock(arrived, n) == strip(SubSeq(arrived, 1, n))

\* send_cmds(cmds) up to the first recv
send_cmds(cmds) ==
    /\ cmd_pc = "idle"
    /\ connected
    /\ cmd_cmds' = cmds
    /\ cmd_sent' = SentBytes(cmds)
    /\ cmd_replies' = <<>>
    /\ cmd_pc' = "recv"
    /\ last' = "send_cmds"
    /\ UNCHANGED <<cmd_answered, cmd_stream, bufVars, hwVars, dmVars, swVars, clock,
                   wire, renamed, emgVars, wrVars,
                   auxVars>>

\* the base station answers the next command; the line arrives
base_reply ==
    /\ cmd_pc = "recv"
    /\ cmd_answered < Len(cmd_cmds)
    /\ cmd_answered' = cmd_answered + 1
    /\ cmd_stream' = cmd_stream \o ReplyLine(cmd_cmds[cmd_answered + 1])
    /\ last' = "other"
    /\ UNCHANGED <<cmd_cmds, cmd_pc, cmd_sent, cmd_replies, bufVars, hwVars, dmVars,
                   swVars, clock, wire, renamed, emgVars, wrVars,
                   auxVars>>

\* one recv(self.command_sock) of the list comprehension: it returns what has
\* arrived, all of it or the part one TCP segment carried
send_cmds_recv ==
    /\ cmd_pc = "recv"
    /\ cmd_stream # <<>>
    /\ \E n \in 1..Len(cmd_stream) :
          /\ cmd_replies' = Append(cmd_replies, recv_command_sock(cmd_stream, n))
          /\ cmd_stream' = SubSeq(cmd_stream, n + 1, Len(cmd_stream))
    /\ cmd_pc' = IF Len(cmd_replies) + 1 = Len(cmd_cmds) THEN "done" ELSE "recv"
    /\ last' = "other"
    /\ UNCHANGED <<cmd_cmds, cmd_sent, cmd_answered, bufVars, hwVars, dmVars, swVars,
                   clock, wire, renamed, emgVars, wrVars,
                   auxVars>>

\* a recv with nothing left to arrive: socket.timeout leaves send_cmds
send_cmds_timeout ==
    /\ cmd_pc = "recv"
    /\ cmd_stream = <<>>
    /\ cmd_answered = Len(cmd_cmds)
    /\ cmd_pc' = "timeout"
    /\ last' = "other"
    /\ UNCHANGED <<cmd_cmds, cmd_sent, cmd_answered, cmd_stream, cmd_replies, bufVars,
                   hwVars, dmVars, swVars, clock, wire, renamed, emgVars, wrVars,
                   auxVars>>

CmdNext ==
    \/ emg_connect
    \/ \E cmds \in CmdSeqs : send_cmds(cmds)
    \/ base_reply
    \/ send_cmds_recv
    \/ send_cmds_timeout

CmdInit == YostInit /\ NoScope /\ attached = {} /\ IdleBuf /\ TrignoInit /\ NoRequest

SpecCmd == CmdInit /\ [][CmdNext]_vars

-----------------------------------------------------------------------------
(* The Yost manager and the TrignoClient side by side, each started and     *)
(* stopped by its caller; the base station sends no EMG frame meanwhile     *)
StopNext ==
    \/ dm_discover_devices
    \/ dm_start_stream
    \/ dm_stop_stream
    \/ dm_stop_stream_join
    \/ \E t \in ThreadIds : handle_stream_loop(t)
    \/ \E t \in ThreadIds : handle_stream_finally(t)
    \/ emg_connect
    \/ emg_handle_stream
    \/ stream_worker
    \/ emg_stop_stream
    \/ emg_stop_stream_join

StopInit ==
    YostInit /\ NoScope /\ attached = ScopeBench /\ IdleBuf /\ TrignoInit /\ NoRequest

SpecStop == StopInit /\ [][StopNext]_vars

\* TrignoClient.connect() where the bench has a base station and no Yost hub
lab_emg_connect == attached = {} /\ emg_connect

\* two benches, one with the Yost hub and one with the Trigno base station only
LiveNext ==
    \/ dm_discover_devices
    \/ dm_start_stream
    \/ dm_stop_stream
    \/ dm_stop_stream_join
    \/ \E t \in ThreadIds : handle_stream_loop(t)
    \/ \E t \in ThreadIds : handle_stream_finally(t)
    \/ lab_emg_connect
    \/ emg_handle_stream
    \/ stream_worker
    \/ emg_stop_stream
    \/ emg_stop_stream_join

LiveInit ==
    /\ YostInit /\ NoScope /\ attached \in {ScopeBench, {}} /\ IdleBuf
    /\ TrignoInit /\ NoRequest

\* the threads are scheduled: a worker that can take its next pass takes it
\* (its reads return within their timeout), a worker that left its loop runs
\* its finally block, and a join whose thread has ended returns
SpecLive ==
    /\ LiveInit /\ [][LiveNext]_vars
    /\ WF_vars(\E t \in ThreadIds : handle_stream_loop(t))
    /\ WF_vars(\E t \in ThreadIds : handle_stream_finally(t))
    /\ WF_vars(dm_stop_stream_join)
    /\ WF_vars(stream_worker)
    /\ WF_vars(emg_stop_stream_join)

-----------------------------------------------------------------------------
(* C1: for a buffer of capacity C, after any number N of add_packet calls   *)
(* the timestamp ring and the data ring still have exactly C entries, and   *)
(* when N > C they hold the samples N-C+1 .. N in arrival order, index 0    *)
(* the oldest, the last index the newest.                                   *)
C1_RingHoldsMostRecent ==
    LET N == Len(added) IN
    /\ Len(timestamp) = bufsize
    /\ Len(raw_data) = bufsize
    /\ Len(data) = bufsize
    /\ N > bufsize =>
         \A i \in 1..bufsize :
            /\ timestamp[i] = added[N - bufsize + i].time
            /\ raw_data[i] =
                  <<[num |-> added[N - bufsize + i].channel_readings["a"], den |-> 1],
                    [num |-> added[N - bufsize + i].channel_readings["b"], den |-> 1]>>

C1_Witness ==
    /\ bufsize >= 2
    /\ Len(added) > bufsize
    /\ added[Len(added)] # added[Len(added) - 1]

(* C2: after N add_packet calls and closing the buffer, the log file holds  *)
(* the header row ('t' then the channel labels) and then exactly N rows,    *)
(* row i being the time and the raw readings of packet i in channel-label   *)
(* order, also when N exceeds the ring capacity.                            *)
C2_LogHoldsEveryRawPacket ==
    ~fp_open =>
        /\ Len(disk) = Len(added) + 1
        /\ disk[1] = <<"t", "a", "b">>
        /\ \A i \in 1..Len(added) :
              disk[i + 1] = <<added[i].time,
                              [num |-> added[i].channel_readings["a"], den |-> 1],
                              [num |-> added[i].channel_readings["b"], den |-> 1]>>

C2_Witness ==
    /\ ~fp_open
    /\ averaged
    /\ Len(added) > bufsize
    /\ added[1].channel_readings["a"] # added[1].channel_readings["b"]
    /\ added[1].channel_readings # added[2].channel_readings

-----------------------------------------------------------------------------
\* the rows logged so far, over all device buffers
LoggedRows(bufs) ==
    UNION {{<<n, k>> : k \in 1..Len(bufs[n])} : n \in DOMAIN bufs}

(* C3: after any sequence of discovery, renames and start_stream, a frame   *)
(* carrying logical slot s only updates the buffer and log of the sensor    *)
(* bound to slot s: every row in the buffer shown for the device with       *)
(* serial dev_sn[i] comes from a frame of that very sensor.                 *)
C3_NoCrossAttribution ==
    \A i \in 1..Len(dev_names) :
        dev_names[i] \in DOMAIN buffers =>
            \A k \in 1..Len(buffers[dev_names[i]]) :
                HEX(buffers[dev_names[i]][k].src) = dev_sn[i]

(* C4: at most one streaming session is active per YostDeviceManager: a     *)
(* start_stream during a session never creates a second worker thread.      *)
C4_AtMostOneSession == Cardinality({t \in ThreadIds : Alive(t)}) <= 1

(* C5: when stop_stream returns after an active session, every worker       *)
(* thread has terminated, every serial port opened by start_stream is       *)
(* closed, no hub slot is still streaming and the registry lists the hubs   *)
(* again.                                                                   *)
C5_StopLeavesNothingRunning ==
    last = "stop_stream" =>
        /\ \A t \in ThreadIds : ~Alive(t)
        /\ serial_open = {}
        /\ \A d \in DongleIds : hub_streaming[d] = {}
        /\ SeqToSet(dongles) = attached \cap DongleIds

(* C6: on each hub, the stop-streaming command goes to exactly the logical  *)
(* slots start-streaming was issued for on that hub, also when several      *)
(* hubs with different slot sets stream in one session.                     *)
C6_StopMatchesStart ==
    \A d \in DongleIds :
        (d \notin serial_open /\ port_io[d] # <<>>) =>
            SlotsSent(port_io[d], "stopStreaming")
                = SlotsSent(port_io[d], "startStreaming")

(* C7: start_stream on a manager whose sensor list is empty returns at      *)
(* once: no worker thread is created, no port is opened, no transport is    *)
(* sent a command, no handle is closed and the streaming flag keeps its     *)
(* value.                                                                   *)
C7_StartWithoutSensorsDoesNothing ==
    [][(last' = "start_stream" /\ all_sensors = <<>>) =>
          UNCHANGED <<threads, _thread, _streaming, serial_open, port_io,
                      hub_streaming, wired_streaming, open_devices, dongles>>]_vars

C7_Witness ==
    /\ last = "start_stream"
    /\ all_sensors = <<>>
    /\ _names # <<>>

(* C8: after close_all_devices returns, every sensor and hub handle the     *)
(* registry held is closed, the hub, wired, wireless and all-sensor lists   *)
(* are empty and has_sensors() is false.                                    *)
C8_CloseAllEmptiesRegistry ==
    [][last' = "close_all_devices" =>
          /\ open_devices' \cap RegistryDevices = {}
          /\ dongles' = <<>>
          /\ wired_sensors' = <<>>
          /\ wireless_sensors' = <<>>
          /\ all_sensors' = <<>>
          /\ ~has_sensors']_vars

C8_Witness ==
    /\ last = "close_all_devices"
    /\ HEX(W1) \in DOMAIN _names
    /\ HEX(S1) \in DOMAIN _names
    /\ \E t \in ThreadIds : threads[t].pc = "done"

(* C9: after discover_devices (also the one that ends a session) the        *)
(* registry lists hold exactly the devices that pass finds: the hubs and    *)
(* wired sensors plugged in whose port is not held open, and the sensors    *)
(* bound to the slots of those hubs that the pass examines, each once;      *)
(* has_sensors() is true exactly when there is such a sensor.               *)
C9_RegistryIsThisDiscovery ==
    last = "discover_devices" =>
        LET hubs  == (attached \cap DongleIds) \ serial_open
            bound == {wireless_table[d][s] :
                         d \in hubs, s \in 0..(CheckedSlots - 1)} \ {0}
            wired == attached \cap WiredIds
        IN  /\ SeqToSet(dongles) = hubs
            /\ SeqToSet(wired_sensors) = wired
            /\ SeqToSet(wireless_sensors) = bound
            /\ SeqToSet(all_sensors) = wired \cup bound
            /\ Len(all_sensors) = Cardinality(wired \cup bound)
            /\ has_sensors <=> (wired \cup bound # {})

C9_Witness ==
    /\ last = "discover_devices"
    /\ W1 \notin attached
    /\ HEX(W1) \in DOMAIN _names
    /\ \E t \in ThreadIds : threads[t].pc = "done"

RowsOf(q, n) ==
    LET sel == SelectSeq(q, LAMBDA p : p.device_name = n)
    IN  [k \in 1..Len(sel) |->
            [t |-> sel[k].time, readings |-> sel[k].channel_readings,
             src |-> sel[k].src]]

-----------------------------------------------------------------------------
(* C11: add_packet flushes the log after every row: whenever add_packet has  *)
(* returned, the header and the row of every sample added so far are in the *)
(* file, none of them only in the in-process write buffer.                  *)
C11_RowFlushedOnReturn ==
    (fp_open /\ Len(added) > 0) => Len(disk) = Len(added) + 1

-----------------------------------------------------------------------------
\* the loop pass that made the last step read wire[i] from the i-th port of
\* thread t, and that port's hub was plugged in
ReadFrom(t, i) ==
    /\ last' = "recv"
    /\ threads[t].pc = "loop"
    /\ Len(wire') = Len(threads[t].ports)
    /\ i \in 1..Len(wire')
    /\ threads[t].ports[i].name \in attached

(* C12: a response frame in which one byte was changed on the way is        *)
(* rejected: the pass that reads it puts no sample in the queue and does    *)
(* not end the worker's loop.                                               *)
C12_CorruptFrameRejected ==
    [][\A t \in ThreadIds : \A i \in 1..Len(threads[t].ports) :
          (ReadFrom(t, i) /\ wire'[i] \in CorruptedFrames(threads[t].ports[i].name))
              => queue' = queue /\ threads' = threads]_vars

(* C13: a well-formed frame for a slot that is not in the port's slot-to-    *)
(* device map gives no sample and does not end the worker: the loop goes on *)
(* for the other devices.                                                   *)
C13_UnknownSlotIsDecodeError ==
    [][\A t \in ThreadIds : \A i \in 1..Len(threads[t].ports) :
          (ReadFrom(t, i) /\ wire'[i] \in UnknownSlotFrames(threads[t].ports[i].name))
              => queue' = queue /\ threads' = threads]_vars

(* C14: when the data channel delivers fewer than 64 bytes in one read the  *)
(* client keeps reading until a whole 64-byte frame is assembled: the       *)
(* worker never raises on a read, and the k-th tuple it queues is decoded   *)
(* from the bytes 64(k-1)+1 .. 64k of the channel.                          *)
C14_ShortReadReassembled ==
    /\ worker_thread # "crashed"
    /\ \A k \in 1..Len(emg_queue) :
          emg_queue[k] = [first |-> emg_frame_sz * (k - 1) + 1,
                          last |-> emg_frame_sz * k]

-----------------------------------------------------------------------------
\* the requests written and not yet answered after the first n entries of a
\* port's trace
Outstanding(trace, n) ==
    Cardinality({i \in 1..n : trace[i][1] = "w"})
        - Cardinality({i \in 1..n : trace[i][1] = "r"})

\* the n-th entry of the trace is one of these requests
Writes(trace, n, cmds) == trace[n][1] = "w" /\ trace[n][2] \in cmds

(* C15, as stated: during the handshake every request (set streaming slots, *)
(* set streaming timing, start streaming) is the only un-acknowledged       *)
(* request on the hub's link when it is written.                            *)
C15_OneRequestOutstanding ==
    \A d \in DongleIds : \A n \in 1..Len(port_io[d]) :
        Writes(port_io[d], n, {"setStreamingSlots", "setStreamingTiming",
                               "startStreaming"})
            => Outstanding(port_io[d], n) = 1

(* C15, amended: every set-streaming-slots and set-streaming-timing request *)
(* is the only un-acknowledged request when it is written; the start        *)
(* streaming requests are written one after the other, at most one per      *)
(* slot outstanding, and once a call has returned as many acknowledgements  *)
(* have been read as requests were written.                                 *)
C15_ConfigureAckedOneByOne ==
    \A d \in DongleIds :
        /\ \A n \in 1..Len(port_io[d]) :
              /\ Writes(port_io[d], n, {"setStreamingSlots", "setStreamingTiming"})
                    => Outstanding(port_io[d], n) = 1
              /\ Writes(port_io[d], n, {"startStreaming"})
                    => Outstanding(port_io[d], n)
                          <= Cardinality(SlotsSent(port_io[d], "startStreaming"))
        /\ Outstanding(port_io[d], Len(port_io[d])) = 0

C15_Witness ==
    /\ Cardinality(SlotsSent(port_io[D1], "startStreaming")) = 2
    /\ Cardinality(SlotsSent(port_io[D1], "setStreamingTiming")) = 2
    /\ D1 \in serial_open

-----------------------------------------------------------------------------
(* C16: the hub-routed request written to the port is 0xF8, slot, opcode,   *)
(* args, checksum with checksum = (slot + opcode + sum of args) mod 256, and *)
(* the direct-wired request is 0xF7, opcode, args, checksum with checksum = *)
(* (opcode + sum of args) mod 256; the start byte is not in the sum and the *)
(* checksum is one byte, 0..255.                                            *)
C16_RequestFraming ==
    LET n == Len(wr_req.args)
        argsum == SumSeq(wr_req.args)
    IN  /\ last = "write_dongle_port" =>
            /\ Len(wr_command) = n + 4
            /\ wr_command[1] = 248
            /\ wr_command[2] = wr_req.logical_id
            /\ wr_command[3] = wr_req.cmd
            /\ SubSeq(wr_command, 4, n + 3) = wr_req.args
            /\ wr_command[n + 4] = (wr_req.logical_id + wr_req.cmd + argsum) % 256
            /\ wr_command[n + 4] \in 0..255
        /\ last = "write_port" =>
            /\ Len(wr_command) = n + 3
            /\ wr_command[1] = 247
            /\ wr_command[2] = wr_req.cmd
            /\ SubSeq(wr_command, 3, n + 2) = wr_req.args
            /\ wr_command[n + 3] = (wr_req.cmd + argsum) % 256
            /\ wr_command[n + 3] \in 0..255

\* a request whose byte sum passes 255, written both ways
C16_Witness ==
    /\ last = "write_dongle_port"
    /\ wr_req.logical_id + wr_req.cmd + SumSeq(wr_req.args) > 255
    /\ Len(wr_req.args) >= 2

-----------------------------------------------------------------------------
\* a header that timed out, a non-zero fail byte, or a payload whose length
\* is not the configured streaming payload size
NoSampleFrame(w) ==
    IF w.hdr = <<>> THEN TRUE
    ELSE IF w.hdr[1] # 0 THEN TRUE
    ELSE IF w.len = <<>> THEN TRUE
    ELSE Min(w.len[1], w.n) # out_sz

-----------------------------------------------------------------------------
\* a YostDeviceManager.stop_stream() that found no session: what it leaves
YostStopIsNoOp ==
    /\ (_thread = 0 /\ gui_pc = "idle") => gui_pc' = "idle"
    /\ last' = "stop_stream_noop" =>
          UNCHANGED <<_streaming, _thread, dongles, all_sensors, wired_sensors,
                      wireless_sensors, open_devices, serial_open, threads, gui_pc>>

\* a TrignoClient.stop_stream() issued with no session: what it leaves
TrignoIdleStop ==
    /\ last' = "emg_stop_stream"
    /\ emg_pc = "idle"
    /\ ~streaming
    /\ worker_thread # "running"

(* C18, as stated: a stop_stream issued when no session is active joins no  *)
(* thread and leaves the streaming flag, the worker reference, the registry *)
(* lists and the open transports unchanged, in the Yost manager and in the  *)
(* TrignoClient.                                                            *)
C18_StopIsIdempotent ==
    [][/\ YostStopIsNoOp
       /\ TrignoIdleStop =>
            /\ UNCHANGED <<streaming, worker_thread, connected, command_sock,
                           emg_data_sock, emg_pc>>
            /\ ~emg_joined']_vars

(* C18, amended: a stop_stream issued when no session is active waits for   *)
(* no running thread and leaves the streaming flag, the worker reference,   *)
(* the registry lists and the open transports unchanged; the Yost manager   *)
(* does nothing at all, the TrignoClient calls join() on its finished       *)
(* worker when it has one and sends STOP when it is connected.              *)
C18_IdleStopChangesNothing ==
    [][/\ YostStopIsNoOp
       /\ TrignoIdleStop =>
            /\ UNCHANGED <<streaming, worker_thread, connected, command_sock,
                           emg_data_sock, emg_pc>>
            /\ emg_joined' = (worker_thread = "finished" \/ worker_thread = "crashed")
            /\ emg_sent' = (IF connected THEN <<"STOP">> ELSE <<>>)]_vars

\* the manager's stop_stream found nothing to stop after a session that was
\* stopped, and the TrignoClient has a stopped session behind it as well
C18_Witness ==
    /\ last = "stop_stream_noop"
    /\ _thread = 0
    /\ \E t \in ThreadIds : threads[t].pc = "done"
    /\ worker_thread = "finished"
    /\ emg_sent = <<"STOP">>

-----------------------------------------------------------------------------
(* C19: the serial ports of a session are closed when its worker has ended, *)
(* also when a stop command raised: once no worker is running or finishing, *)
(* no dongle port is left open.                                             *)
C19_ClosedEvenIfStopFails ==
    (\A t \in ThreadIds : ~Alive(t)) => serial_open = {}

-----------------------------------------------------------------------------
(* C20: set_device_name(serial, name) changes the nickname of that serial   *)
(* and nothing else: the serials get_all_sensor_serial returns, the device  *)
(* lists and the nickname of every other device stay as they were; and a    *)
(* device that was never renamed has its hex serial as nickname.            *)
C20_RenameChangesOneNickname ==
    [][/\ last' = "set_device_name" =>
            /\ get_all_sensor_serial' = get_all_sensor_serial
            /\ UNCHANGED <<dongles, all_sensors, wired_sensors, wireless_sensors>>
            /\ DOMAIN _names' = DOMAIN _names
            /\ \E h \in DOMAIN _names :
                  /\ renamed' = renamed \cup {h}
                  /\ _names'[h] \in NickNames
                  /\ \A g \in DOMAIN _names \ {h} : _names'[g] = _names[g]
       /\ \A h \in DOMAIN _names' : h \notin renamed' => _names'[h] = h]_vars

\* one sensor of the hub was renamed after discovery, the other was not
C20_Witness ==
    /\ last = "set_device_name"
    /\ HEX(S1) \in DOMAIN _names /\ HEX(S2) \in DOMAIN _names
    /\ _names[HEX(S1)] \in NickNames
    /\ _names[HEX(S2)] = HEX(S2)
    /\ all_sensors # <<>>

-----------------------------------------------------------------------------
-----------------------------------------------------------------------------
(* C22: discovery of a hub examines every logical slot 0..15: after          *)
(* discover_devices, every sensor bound to a slot of a discovered hub is in *)
(* the wireless list and in the all-sensor list, once.                      *)
C22_EverySlotDiscovered ==
    last = "discover_devices" =>
        \A d \in SeqToSet(dongles) : \A s \in Slots :
            wireless_table[d][s] # 0 =>
                /\ Cardinality({i \in 1..Len(wireless_sensors) :
                                   wireless_sensors[i] = wireless_table[d][s]}) = 1
                /\ Cardinality({i \in 1..Len(all_sensors) :
                                   all_sensors[i] = wireless_table[d][s]}) = 1

-----------------------------------------------------------------------------
(* C23: a hard error on one transport ends only that transport's worker:    *)
(* while the session is not stopped, a worker that serves a transport that  *)
(* is still plugged in stays in its loop, so that transport's samples keep  *)
(* being pushed.                                                            *)
C23_OtherTransportsKeepStreaming ==
    [][\A t \in ThreadIds :
          (/\ threads[t].pc = "loop"
           /\ _streaming /\ _streaming'
           /\ \E i \in 1..Len(threads[t].ports) :
                  threads[t].ports[i].name \in attached')
          => threads'[t].pc = "loop"]_vars

-----------------------------------------------------------------------------
(* C24: at every instant a physical serial port is open in at most one      *)
(* component: no hub is at once held by a registry handle and open as a raw *)
(* port of a worker; a port becomes a worker's raw port only in a step that *)
(* leaves no registry handle to it, and a hub gets a registry handle again  *)
(* only in a step after which the raw port is closed.                       *)
C24_PortOwnedOnce ==
    /\ serial_open \cap open_devices = {}
    /\ serial_open \cap SeqToSet(dongles) = {}
    /\ \A t \in ThreadIds : \A i \in 1..Len(threads[t].ports) :
          Alive(t) => threads[t].ports[i].name \notin open_devices

\* a session is running: the worker owns the raw port of a hub that is still
\* plugged in while the registry has been asked to discover again
C24_Witness ==
    /\ last = "discover_devices"
    /\ _streaming
    /\ D1 \in serial_open /\ D1 \in attached
    /\ \E t \in ThreadIds : threads[t].pc = "loop"

-----------------------------------------------------------------------------
(* C25: while a session is active (the streaming flag is true before and    *)
(* after the step) no step of any thread changes the registry's device      *)
(* lists or its nickname map.                                               *)
C25_RegistryFrozenWhileStreaming ==
    [][(_streaming /\ _streaming') =>
          UNCHANGED <<dongles, all_sensors, wired_sensors, wireless_sensors,
                      _names>>]_vars

-----------------------------------------------------------------------------
(* C26: the shared sample queue is bounded: it has a fixed positive         *)
(* capacity, it never holds more samples than that, and a sample is pushed  *)
(* only while the queue is below its capacity.                              *)
C26_QueueBounded ==
    [][/\ queue_maxsize > 0 => Len(queue') <= queue_maxsize
       /\ Len(queue') > Len(queue) =>
             (queue_maxsize > 0 /\ Len(queue) < queue_maxsize)]_vars

-----------------------------------------------------------------------------
\* the handshake of every port of worker t is complete: start streaming was
\* sent to every mapped slot and every request written has been answered
Configured(t) ==
    \A i \in 1..Len(threads[t].ports) :
        LET d == threads[t].ports[i].name
        IN  /\ DOMAIN threads[t].ports[i].wl_mp
                  \subseteq SlotsSent(port_io[d], "startStreaming")
            /\ Outstanding(port_io[d], Len(port_io[d])) = 0

(* C27: a session goes Idle, Configuring, Streaming, Draining, Idle: a      *)
(* sample is pushed to the queue only by a worker whose transports are all  *)
(* configured, and only while the session is streaming or being drained by  *)
(* a stop_stream call that has not returned yet; none is pushed once        *)
(* stop_stream has returned and no session has been started since.          *)
C27_PushOnlyInsideSession ==
    [][Len(queue') > Len(queue) =>
          /\ \E t \in ThreadIds :
                threads[t].pc = "reading" /\ threads'[t].pc # "reading" /\ Configured(t)
          /\ _streaming \/ gui_pc = "joining"]_vars

-----------------------------------------------------------------------------
\* a sequence of numbers that never goes down from one index to the next
NonDecreasing(seq) == \A i \in 1..(Len(seq) - 1) : seq[i] <= seq[i + 1]

(* C28: when the packets were added with non-decreasing times, the          *)
(* timestamp ring is non-decreasing from its first to its last index in     *)
(* every reachable state, before and after the ring has wrapped.            *)
C28_TimestampsStayOrdered ==
    NonDecreasing([i \in 1..Len(added) |-> added[i].time])
        => NonDecreasing(timestamp)

\* the ring has wrapped and holds two different times
C28_Witness ==
    /\ bufsize >= 2
    /\ Len(added) > bufsize
    /\ NonDecreasing([i \in 1..Len(added) |-> added[i].time])
    /\ timestamp[1] < timestamp[bufsize]

-----------------------------------------------------------------------------
(* C29: send_cmds(c1..cn) writes each command followed by CR LF and then    *)
(* one blank CR LF, and it returns exactly n replies, reply i being the     *)
(* base station's reply line to command i, however the reply lines are      *)
(* cut into TCP reads (several lines in one read, one line over several).   *)
C29_ReplyPerCommand ==
    /\ cmd_pc # "idle" => cmd_sent = SentBytes(cmd_cmds)
    /\ cmd_pc # "timeout"
    /\ cmd_pc = "done" =>
          /\ Len(cmd_replies) = Len(cmd_cmds)
          /\ \A i \in 1..Len(cmd_cmds) : cmd_replies[i] = ReplyText(cmd_cmds[i])

-----------------------------------------------------------------------------
\* in the sequence rows, the entries of one sensor are in the order of the
\* passes that read them (tm gives the time of the pass, a later pass has a
\* later time)
SensorOrderKept(rows, tm(_)) ==
    \A i, j \in 1..Len(rows) :
        (i < j /\ rows[i].src = rows[j].src) => tm(rows[i]) < tm(rows[j])

(* C30: the samples of one sensor are in the queue in the order their       *)
(* frames were read, the consumer appends them to the device's buffer and   *)
(* log in that order, and every row already in a buffer was read before     *)
(* every sample of that sensor still in the queue.                          *)
C30_SamplesKeepReadOrder ==
    /\ SensorOrderKept(queue, LAMBDA p : p.time)
    /\ \A n \in DOMAIN buffers :
          /\ SensorOrderKept(buffers[n], LAMBDA r : r.t)
          /\ \A k \in 1..Len(buffers[n]) : \A i \in 1..Len(queue) :
                buffers[n][k].src = queue[i].src => buffers[n][k].t < queue[i].time

\* one update logged two samples of the same sensor, read by two passes
C30_Witness ==
    /\ last = "update"
    /\ \E n \in DOMAIN buffers : \E i, j \in 1..Len(buffers[n]) :
          /\ i < j
          /\ buffers[n][i].src = buffers[n][j].src
          /\ buffers[n][i].t < buffers[n][j].t

-----------------------------------------------------------------------------
(* C31: stop_stream always terminates: once it has set the cancellation     *)
(* flag and waits in join, the worker sees the flag at its next loop check  *)
(* and ends, and the join returns; for the Yost manager and for the         *)
(* TrignoClient.                                                            *)
C31_StopStreamTerminates ==
    /\ (gui_pc = "joining") ~> (gui_pc = "idle" /\ _thread = 0)
    /\ (emg_pc = "stop_stream") ~> (emg_pc = "idle" /\ worker_thread # "running")

\* a stop_stream call has returned after joining a worker that ran
C31_Witness ==
    /\ last = "stop_stream" /\ gui_pc = "idle" /\ _thread = 0
    /\ \E t \in ThreadIds : threads[t].pc = "done"

\* the TrignoClient's stop_stream has returned after joining its worker
C31_EmgJoined ==
    emg_joined /\ worker_thread = "finished" /\ emg_pc = "idle"

-----------------------------------------------------------------------------
(* C32: in the averaged buffer the window is W = min(capacity, 1024); every *)
(* add_packet shifts the averaged ring left by one entry and puts at its    *)
(* tail, per channel, the arithmetic mean of the last W entries of the raw  *)
(* ring (initial zeros included), and the raw ring is shifted the same way  *)
(* and receives the packet's readings themselves.                           *)
MeanOfLast(raw, W, c) ==
    Frac(SumSeq([i \in 1..W |-> raw[Len(raw) - W + i][c].num]), W)

C32_NewestAverageIsWindowMean ==
    [][(averaged /\ Len(added') = Len(added) + 1) =>
          LET W      == IF bufsize <= 1024 THEN bufsize ELSE 1024
              packet == added'[Len(added')]
          IN  /\ raw_data' = Tail(raw_data) \o <<Readings(packet)>>
              /\ data' = Tail(data) \o
                     <<[c \in 1..Len(channel_labels) |-> MeanOfLast(raw_data', W, c)]>>
              /\ Len(data') = bufsize /\ Len(raw_data') = bufsize]_vars

\* an averaged buffer longer than the window has taken three packets and its
\* newest average differs from the newest raw entry
C32_Witness ==
    /\ averaged /\ Len(added) = 3
    /\ bufsize > DEFAULT_MOVING_AVERAGE_POINTS
    /\ data[bufsize] # raw_data[bufsize]

-----------------------------------------------------------------------------
(* C33: no partial sample is ever stored: an add_packet whose packet lacks  *)
(* a reading for one of the channel labels changes nothing, so the log has  *)
(* one row per complete packet and the rings were shifted once per complete *)
(* packet, and every row logged or stored has one value per channel label.  *)
C33_NoPartialSample ==
    LET rows  == disk \o sensor_fp
        n     == Len(added)
        times == Zeros(bufsize, 0) \o [i \in 1..n |-> added[i].time]
        reads == Zeros(bufsize, Zeros(Len(channel_labels), Float(0)))
                     \o [i \in 1..n |-> Readings(added[i])]
    IN  /\ \A i \in 1..n : HasAllLabels(added[i])
        /\ fp_open => Len(rows) = 1 + n
        /\ \A i \in 2..Len(rows) :
              /\ Len(rows[i]) = 1 + Len(channel_labels)
              /\ rows[i] = Row(added[i - 1].time, Readings(added[i - 1]))
        /\ timestamp = LastN(times, bufsize)
        /\ raw_data = LastN(reads, bufsize)
        /\ \A i \in 1..bufsize :
              Len(raw_data[i]) = Len(channel_labels) /\ Len(data[i]) = Len(channel_labels)

\* a packet without all labels was refused by a buffer that holds two samples
C33_Witness ==
    /\ last = "KeyError"
    /\ Len(added) = 2
    /\ fp_open

-----------------------------------------------------------------------------
(* C34: a recv of the directly wired sensors that gets fewer than out_sz    *)
(* bytes from a port within the read timeout puts no Sample of that port in *)
(* the queue and does not leave with an exception.                          *)
C34_ShortReadIsNoSample ==
    (\E i \in 1..Len(ws_reads) : ws_reads[i].n < out_sz) => ~ws_raised

-----------------------------------------------------------------------------
(* C35: the streaming loop reports its rate exactly once per 1000 pushed    *)
(* samples: a pass reports only when 1000 samples were pushed since the     *)
(* previous report, the count of unreported samples never passes 1000, and  *)
(* the accounting never ends the loop.                                      *)
C35_ReportOncePerThousand ==
    /\ fps_report # <<>> => fps_report[1] = fps_report_every
    /\ fps_pushed < fps_report_every
    /\ fps_pc = "loop"

-----------------------------------------------------------------------------
(* C36: connect sends ENDIAN LITTLE before any capability query; START goes *)
(* out only on a connected client, which connect has configured; the        *)
(* streaming flag becomes true only in the call that sent START, the worker *)
(* is started only by that call, and no frame is read before START.         *)
IsQuery(c) == \E i \in 1..Len(ConnectCmds) : ConnectCmds[i] = c /\ c # "ENDIAN LITTLE"

C36_ConfigureThenStart ==
    [][/\ \A i \in 1..Len(emg_sent') :
             (emg_sent' # emg_sent /\ IsQuery(emg_sent'[i]))
                 => \E j \in 1..(i - 1) : emg_sent'[j] = "ENDIAN LITTLE"
       /\ (connected' /\ ~connected)
             => (emg_sent' # <<>> /\ emg_sent'[1] = "ENDIAN LITTLE")
       /\ (emg_sent' = <<"START">> /\ last' = "emg_handle_stream") => connected
       /\ (streaming' /\ ~streaming) => emg_sent' = <<"START">>
       /\ (worker_thread' = "running" /\ worker_thread # "running")
             => emg_sent' = <<"START">>
       /\ emg_read' > emg_read => (worker_thread = "running" /\ connected)]_vars

\* after a connect that sent all its commands, a worker has read a frame
C36_Witness ==
    /\ connected /\ streaming /\ worker_thread = "running"
    /\ emg_queue # <<>>

-----------------------------------------------------------------------------
(* C37: for 1 <= n <= capacity, add_packets with n frames leaves the data   *)
(* ring as n add_packet calls with the same frames in order would: the old  *)
(* entries shifted left by n and the n frames at the tail, oldest first;    *)
(* both rings keep their length.                                            *)
RECURSIVE AddEach(_, _)
AddEach(ring, rows) ==
    IF rows = <<>> THEN ring ELSE AddEach(ShiftLeft(ring, Head(rows)), Tail(rows))

C37_BatchEqualsSingles ==
    [][(ds_calls' # ds_calls /\ ds_packets' # <<>> /\ Len(ds_packets') <= ds_bufsize) =>
          /\ ~ds_error'
          /\ ds_data' = AddEach(ds_data, ds_packets')
          /\ ds_data' = SubSeq(ds_data, Len(ds_packets') + 1, ds_bufsize) \o ds_packets'
          /\ Len(ds_data') = ds_bufsize
          /\ Len(ds_timestamp') = ds_bufsize]_vars

\* a batch of two frames went into a buffer of three that held a frame
C37_Witness ==
    /\ ds_bufsize = 3 /\ Len(ds_packets) = 2 /\ ~ds_error
    /\ ds_data[1] # 0
    /\ ds_data[2] # ds_data[3]

-----------------------------------------------------------------------------
(* C38: while the workers push, an update takes exactly the packets that    *)
(* were queued when it read qsize, oldest first, and its q.get() never      *)
(* finds the queue empty; what is pushed meanwhile stays queued behind      *)
(* them; taking a packet of a device without a buffer changes no buffer.    *)
C38_UpdateTakesSnapshot ==
    /\ [](gui_pc = "update" =>
            /\ Len(queue) >= upd_left
            /\ upd_taken \o SubSeq(queue, 1, upd_left) = upd_snapshot)
    /\ [][(gui_pc = "update" /\ upd_left' = upd_left - 1
              /\ Head(queue).device_name \notin DOMAIN buffers)
             => buffers' = buffers]_vars

\* an update has taken a packet that has no buffer while a packet pushed after
\* qsize was read waits in the queue
C38_Witness ==
    /\ gui_pc = "update" /\ upd_left = 0
    /\ \E i \in 1..Len(upd_taken) : upd_taken[i].device_name \notin DOMAIN buffers
    /\ queue # <<>>

-----------------------------------------------------------------------------
(* C39: the task events follow the region state machine: ENTER_TARGET is    *)
(* emitted only from OUTSIDE and the next event after it is EXIT_TARGET,    *)
(* likewise ENTER_BASE and EXIT_BASE; a measurement in both ranges enters   *)
(* the target; each device evaluated in an update emits at most one event.  *)
C39_EventsFollowRegions ==
    LET ev == task_events
        n  == Len(task_events)
    IN  /\ \A i \in 1..n :
              /\ ev[i] \in {"ENTER_TARGET", "ENTER_BASE"} =>
                    (i = 1 \/ ev[i - 1] \in {"EXIT_TARGET", "EXIT_BASE"})
              /\ (ev[i] = "ENTER_TARGET" /\ i < n) => ev[i + 1] = "EXIT_TARGET"
              /\ (ev[i] = "ENTER_BASE" /\ i < n) => ev[i + 1] = "EXIT_BASE"
        /\ last_state = (IF n = 0 THEN "OUTSIDE"
                         ELSE IF ev[n] = "ENTER_TARGET" THEN "IN_TARGET"
                         ELSE IF ev[n] = "ENTER_BASE" THEN "IN_BASE"
                         ELSE "OUTSIDE")
        /\ \A d \in 1..Len(task_emitted) :
              /\ Len(task_emitted[d]) <= 1
              /\ (Within(task_meas[d], target_range) /\ Within(task_meas[d], base_range))
                    => task_emitted[d] # <<"ENTER_BASE">>

\* in one update the first device left the target and the second device, with
\* a measurement inside both ranges, entered the target
C39_Witness ==
    /\ Len(task_emitted) >= 2
    /\ task_emitted[1] = <<"EXIT_TARGET">>
    /\ task_emitted[2] = <<"ENTER_TARGET">>
    /\ Within(task_meas[2], target_range) /\ Within(task_meas[2], base_range)

=============================================================================
